---------------------------- MODULE Spec2Model ----------------------------
(***************************************************************************)
(* Blackboard multi-agent system of src/mas.py: the Blackboard store, the  *)
(* AxiomInverter, PatternRecognizer and PRA agents polling it, and the     *)
(* clients of the store (add_axiom, subscribe, export_report, direct       *)
(* calls).                                                                 *)
(*                                                                         *)
(* Text.  A Python str is modelled as a sequence of tokens: a token is a   *)
(* word (a maximal run of non-blank characters) or SP, one blank.  Every   *)
(* store operation that holds self.lock is one action; what is done on     *)
(* several lock acquisitions (an agent's process(), export_report) is      *)
(* several actions.  Probabilities and severities are hundredths, risk     *)
(* scores ten-thousandths.                                                 *)
(***************************************************************************)
EXTENDS Integers, Sequences, FiniteSets, TLC

(***************************************************************************)
(* Bounds of the model.                                                    *)
(***************************************************************************)
MaxAxioms == 2
MaxVectors == 2
MaxOccurrences == 2
MaxDirectCalls == 1
MaxSubscriptions == 1
MaxErrors == 1
MaxWaitPolls == 6
MaxWords == 3

(***************************************************************************)
(* Text                                                                    *)
(***************************************************************************)
SP == " "

\* SQL NULL / Python None in a text column; no text is this sequence.
NULL == <<"<NULL>">>

\* Python None as the domain argument.
None == "<None>"

Max(x, y) == IF x >= y THEN x ELSE y

Min(x, y) == IF x <= y THEN x ELSE y

IsWord(t) == t # SP

\* str.split(): the words of the string, blanks dropped.
Split(s) == SelectSeq(s, IsWord)

\* " ".join(parts), each part a string (a token sequence).
RECURSIVE Join(_)
Join(parts) ==
    IF parts = <<>> THEN <<>>
    ELSE IF Len(parts) = 1 THEN parts[1]
    ELSE parts[1] \o <<SP>> \o Join(Tail(parts))

\* The string made of the given words separated by one blank.
Phrase(ws) == Join([i \in DOMAIN ws |-> <<ws[i]>>])

\* word.lower().strip(".,;:!?") on the words of the model's vocabulary;
\* every other word of the vocabulary is lower case and bare already.
LowerStripTable ==
    ("Atomic." :> "atomic") @@ ("File" :> "file") @@ ("It" :> "it") @@
    ("Memory" :> "memory") @@ ("NOT" :> "not") @@ ("Objects" :> "objects") @@
    ("Tasks" :> "tasks") @@ ("that:" :> "that")

LowerStrip(word) ==
    IF word \in DOMAIN LowerStripTable THEN LowerStripTable[word] ELSE word

INVERSIONS ==
    ("deterministic" :> Phrase(<<"non-deterministic", "and", "entropy-dependent">>)) @@
    ("consistent" :> Phrase(<<"eventually", "consistent", "or", "divergent">>)) @@
    ("immutable" :> Phrase(<<"mutated", "by", "external", "side-effects">>)) @@
    ("available" :> Phrase(<<"unavailable", "or", "rate-limited">>)) @@
    ("atomic" :> Phrase(<<"interleaved", "and", "race-prone">>)) @@
    ("static" :> Phrase(<<"dynamically", "interposed">>)) @@
    ("synchronous" :> Phrase(<<"asynchronous", "and", "uncoordinated">>)) @@
    ("reliable" :> Phrase(<<"unreliable", "and", "failure-prone">>)) @@
    ("secure" :> Phrase(<<"vulnerable", "and", "exposed">>)) @@
    ("fast" :> Phrase(<<"slow", "and", "latency-bound">>)) @@
    ("safe" :> Phrase(<<"unsafe", "and", "hazardous">>)) @@
    ("stable" :> Phrase(<<"unstable", "and", "volatile">>)) @@
    ("isolated" :> Phrase(<<"shared", "and", "contended">>)) @@
    ("unique" :> Phrase(<<"duplicated", "or", "colliding">>)) @@
    ("valid" :> Phrase(<<"invalid", "or", "malformed">>)) @@
    ("complete" :> Phrase(<<"partial", "or", "truncated">>)) @@
    ("ordered" :> Phrase(<<"unordered", "or", "shuffled">>)) @@
    ("cached" :> Phrase(<<"uncached", "and", "cold">>)) @@
    ("persistent" :> Phrase(<<"ephemeral", "and", "transient">>)) @@
    ("idempotent" :> Phrase(<<"non-idempotent", "with", "side-effects">>)) @@
    ("stateless" :> Phrase(<<"stateful", "and", "context-dependent">>)) @@
    ("guaranteed" :> Phrase(<<"best-effort", "and", "lossy">>)) @@
    ("sequential" :> Phrase(<<"concurrent", "and", "racy">>)) @@
    ("blocking" :> Phrase(<<"non-blocking", "but", "incomplete">>)) @@
    ("trusted" :> Phrase(<<"untrusted", "and", "adversarial">>))

NEGATIONS ==
    ("always" :> Phrase(<<"sometimes", "fails", "to">>)) @@
    ("never" :> Phrase(<<"occasionally", "does">>)) @@
    ("will" :> Phrase(<<"may", "not">>)) @@
    ("must" :> Phrase(<<"might", "not">>)) @@
    ("should" :> Phrase(<<"could", "fail", "to">>)) @@
    ("can" :> Phrase(<<"cannot", "reliably">>)) @@
    ("is" :> Phrase(<<"is", "not", "necessarily">>)) @@
    ("are" :> Phrase(<<"are", "not", "guaranteed", "to", "be">>)) @@
    ("has" :> Phrase(<<"may", "lack">>)) @@
    ("does" :> Phrase(<<"may", "fail", "to">>))

\* One pass of the loop body of invert_logic over a word.
InvertWord(word) ==
    LET lower_word == LowerStrip(word)
    IN  IF lower_word \in DOMAIN NEGATIONS THEN NEGATIONS[lower_word]
        ELSE IF lower_word \in DOMAIN INVERSIONS THEN INVERSIONS[lower_word]
        ELSE <<word>>

invert_logic(statement) ==
    LET words == Split(statement)
        new_words == [i \in DOMAIN words |-> InvertWord(words[i])]
        result == Join(new_words)
    IN  IF result = statement
        THEN <<"It", SP, "is", SP, "NOT", SP, "guaranteed", SP, "that:", SP>>
             \o statement
        ELSE result

\* The keywords of the agents' tables that are substrings of word.lower(),
\* for the words of the model's vocabulary.
KeywordsInTable ==
    ("Memory" :> {"memory"}) @@ ("memory" :> {"memory"}) @@
    ("asynchronous" :> {"async"}) @@ ("concurrent" :> {"concurrent"}) @@
    ("crash" :> {"crash"}) @@ ("exposed" :> {"exposed"}) @@
    ("fail" :> {"fail"}) @@ ("fails" :> {"fail"}) @@
    ("failure-prone" :> {"fail"}) @@ ("race-prone" :> {"race"}) @@
    ("unsafe" :> {"unsafe"}) @@ ("untrusted" :> {"untrusted"}) @@
    ("vulnerable" :> {"vulnerable"})

KeywordsIn(word) ==
    IF word \in DOMAIN KeywordsInTable THEN KeywordsInTable[word] ELSE {}

\* kw in text.lower(), for a keyword without a blank, and for "data loss".
Contains(text, kw) ==
    IF kw = "data loss"
    THEN \E i \in DOMAIN text :
            /\ i + 2 <= Len(text)
            /\ text[i] = "data" /\ text[i + 1] = SP /\ text[i + 2] = "loss"
    ELSE \E i \in DOMAIN text : kw \in KeywordsIn(text[i])

(***************************************************************************)
(* PRAAgent: scoring                                                       *)
(***************************************************************************)
BASE_RATES ==
    ("memory" :> 15) @@ ("concurrency" :> 20) @@ ("security" :> 10) @@
    ("build" :> 5) @@ ("runtime" :> 12) @@ ("network" :> 8) @@
    ("storage" :> 5) @@ ("default" :> 10)

\* The dicts of assess_risk and identify_mechanism, in insertion order.
risk_keywords ==
    << <<"crash", 30>>, <<"fail", 20>>, <<"corrupt", 25>>, <<"leak", 20>>,
       <<"race", 25>>, <<"vulnerable", 30>>, <<"deadlock", 35>>,
       <<"overflow", 30>>, <<"undefined", 20>> >>

severity_keywords ==
    << <<"data loss", 100>>, <<"crash", 90>>, <<"security", 95>>,
       <<"corrupt", 85>>, <<"deadlock", 80>>, <<"memory", 70>>,
       <<"performance", 50>> >>

mechanisms ==
    << <<"race", "Race Condition">>, <<"leak", "Resource Leak">>,
       <<"crash", "Runtime Exception">>, <<"corrupt", "Data Corruption">>,
       <<"deadlock", "Deadlock">>, <<"overflow", "Buffer Overflow">>,
       <<"timeout", "Timeout">>, <<"inconsistent", "State Inconsistency">> >>

\* sum(boost for kw, boost in risk_keywords.items() if kw in inverted)
RECURSIVE LikelihoodBoost(_, _)
LikelihoodBoost(inverted, k) ==
    IF k = 0 THEN 0
    ELSE LikelihoodBoost(inverted, k - 1)
         + (IF Contains(inverted, risk_keywords[k][1])
            THEN risk_keywords[k][2] ELSE 0)

\* The loop severity = max(severity, sev) over the first k severity keywords.
RECURSIVE SeverityUpTo(_, _)
SeverityUpTo(inverted, k) ==
    IF k = 0 THEN 50
    ELSE LET s == SeverityUpTo(inverted, k - 1)
         IN  IF Contains(inverted, severity_keywords[k][1])
             THEN Max(s, severity_keywords[k][2]) ELSE s

\* Mutant: the probability is not capped.
assess_risk_uncapped(axiom) ==
    LET domain == axiom.domain
        inverted == axiom.inverted_statement
        prior == IF domain \in DOMAIN BASE_RATES
                 THEN BASE_RATES[domain] ELSE BASE_RATES["default"]
        likelihood_boost == LikelihoodBoost(inverted, Len(risk_keywords))
        probability == prior + likelihood_boost
        severity == SeverityUpTo(inverted, Len(severity_keywords))
    IN  <<probability, severity>>

\* assess_risk(axiom) = <<probability, severity>>, in hundredths.
assess_risk(axiom) ==
    LET domain == axiom.domain
        inverted == axiom.inverted_statement
        prior == IF domain \in DOMAIN BASE_RATES
                 THEN BASE_RATES[domain] ELSE BASE_RATES["default"]
        likelihood_boost == LikelihoodBoost(inverted, Len(risk_keywords))
        probability == Min(95, prior + likelihood_boost)
        severity == SeverityUpTo(inverted, Len(severity_keywords))
    IN  <<probability, severity>>

\* RISK_THRESHOLDS in insertion order, in ten-thousandths.
RISK_THRESHOLDS ==
    << <<"CRITICAL", 8000>>, <<"HIGH", 6000>>, <<"MEDIUM", 4000>>,
       <<"LOW", 2000>> >>

\* The loop of categorize_risk from the k-th threshold on.
RECURSIVE LevelFrom(_, _)
LevelFrom(risk_score, k) ==
    IF k > Len(RISK_THRESHOLDS) THEN "LOW"
    ELSE IF risk_score >= RISK_THRESHOLDS[k][2] THEN RISK_THRESHOLDS[k][1]
    ELSE LevelFrom(risk_score, k + 1)

\* Mutant: a score has to be above a threshold to reach its level.
categorize_risk_above(risk_score) ==
    IF risk_score > 8000 THEN "CRITICAL"
    ELSE IF risk_score > 6000 THEN "HIGH"
    ELSE IF risk_score > 4000 THEN "MEDIUM"
    ELSE "LOW"

categorize_risk(risk_score) == LevelFrom(risk_score, 1)

RECURSIVE MechanismFrom(_, _)
MechanismFrom(inverted, k) ==
    IF k > Len(mechanisms) THEN "Unknown Mechanism"
    ELSE IF Contains(inverted, mechanisms[k][1]) THEN mechanisms[k][2]
    ELSE MechanismFrom(inverted, k + 1)

identify_mechanism(axiom) == MechanismFrom(axiom.inverted_statement, 1)

generate_failure_description(axiom) ==
    <<axiom.component, SP, "failure", SP, "when:", SP>>
    \o axiom.inverted_statement

(***************************************************************************)
(* PRAAgent.fault_tree_analysis.  A probability is a fraction              *)
(* <<numerator, denominator>>; a row of `vectors` is a row of              *)
(* get_all_failure_vectors.                                                *)
(***************************************************************************)
\* The greatest common divisor, and a fraction in lowest terms: one value of
\* the code's float has one representation.
RECURSIVE GCD(_, _)
GCD(a, b) == IF b = 0 THEN a ELSE GCD(b, a % b)

Lowest(x) == LET g == GCD(x[1], x[2]) IN <<x[1] \div g, x[2] \div g>>

\* The fold with the product term left as `result`: the last element wins.
RECURSIVE or_gate_last_wins(_)
or_gate_last_wins(probabilities) ==
    IF probabilities = <<>> THEN <<0, 1>>
    ELSE LET n == Len(probabilities)
             result == or_gate_last_wins(SubSeq(probabilities, 1, n - 1))
             p == probabilities[n]
         IN  Lowest(<<result[1] * p[2] + p[1] * result[2] - result[1] * p[2],
                      result[2] * p[2]>>)

\* or_gate: result = result + p - (result * p), from 0, left to right.
RECURSIVE or_gate(_)
or_gate(probabilities) ==
    IF probabilities = <<>> THEN <<0, 1>>
    ELSE LET n == Len(probabilities)
             result == or_gate(SubSeq(probabilities, 1, n - 1))
             p == probabilities[n]
         IN  Lowest(<<result[1] * p[2] + p[1] * result[2] - result[1] * p[1],
                      result[2] * p[2]>>)

\* The product started from 0 instead of 1.
RECURSIVE and_gate_from_zero(_)
and_gate_from_zero(probabilities) ==
    IF probabilities = <<>> THEN <<0, 1>>
    ELSE LET n == Len(probabilities)
             result == and_gate_from_zero(SubSeq(probabilities, 1, n - 1))
             p == probabilities[n]
         IN  Lowest(<<result[1] * p[1], result[2] * p[2]>>)

\* and_gate: result *= p, from 1, left to right.
RECURSIVE and_gate(_)
and_gate(probabilities) ==
    IF probabilities = <<>> THEN <<1, 1>>
    ELSE LET n == Len(probabilities)
             result == and_gate(SubSeq(probabilities, 1, n - 1))
             p == probabilities[n]
         IN  Lowest(<<result[1] * p[1], result[2] * p[2]>>)

\* The keys of by_component, in the order they are inserted.
RECURSIVE ComponentsOf(_)
ComponentsOf(vectors) ==
    IF vectors = <<>> THEN <<>>
    ELSE LET n == Len(vectors)
             before == ComponentsOf(SubSeq(vectors, 1, n - 1))
             comp == vectors[n].component
         IN  IF \E k \in DOMAIN before : before[k] = comp
             THEN before ELSE Append(before, comp)

\* The grouping that ignores the component: every group holds every row.
RECURSIVE ProbabilitiesOf_all(_, _)
ProbabilitiesOf_all(vectors, comp) ==
    IF vectors = <<>> THEN <<>>
    ELSE LET n == Len(vectors)
             before == ProbabilitiesOf_all(SubSeq(vectors, 1, n - 1), comp)
         IN  Append(before, <<vectors[n].vector.probability, 100>>)

\* by_component[comp]: the probabilities of the component's rows.
RECURSIVE ProbabilitiesOf(_, _)
ProbabilitiesOf(vectors, comp) ==
    IF vectors = <<>> THEN <<>>
    ELSE LET n == Len(vectors)
             before == ProbabilitiesOf(SubSeq(vectors, 1, n - 1), comp)
         IN  IF vectors[n].component = comp
             THEN Append(before, <<vectors[n].vector.probability, 100>>)
             ELSE before

\* round(x, 4) of the fraction x of [0, 1], in ten-thousandths: the first four
\* decimals by long division, two at a time, then the remainder decides, ties
\* to even.
Round4(x) ==
    LET den == x[2]
        hundredths == (x[1] * 100) \div den
        left == (x[1] * 100) % den
        q == hundredths * 100 + (left * 100) \div den
        r == (left * 100) % den
    IN  IF 2 * r < den THEN q
        ELSE IF 2 * r > den THEN q + 1
        ELSE IF q % 2 = 0 THEN q ELSE q + 1

\* The sort that puts a row before the rows of equal score.
RECURSIVE SortedByRisk_ties_reversed(_)
SortedByRisk_ties_reversed(vectors) ==
    IF vectors = <<>> THEN <<>>
    ELSE LET n == Len(vectors)
             before == SortedByRisk_ties_reversed(SubSeq(vectors, 1, n - 1))
             v == vectors[n]
             ahead == Cardinality({k \in DOMAIN before :
                          before[k].vector.risk_score > v.vector.risk_score})
         IN  SubSeq(before, 1, ahead) \o <<v>>
             \o SubSeq(before, ahead + 1, Len(before))

\* sorted(vectors, key=risk_score, reverse=True): stable, highest first.
RECURSIVE SortedByRisk(_)
SortedByRisk(vectors) ==
    IF vectors = <<>> THEN <<>>
    ELSE LET n == Len(vectors)
             before == SortedByRisk(SubSeq(vectors, 1, n - 1))
             v == vectors[n]
             ahead == Cardinality({k \in DOMAIN before :
                          before[k].vector.risk_score >= v.vector.risk_score})
         IN  SubSeq(before, 1, ahead) \o <<v>>
             \o SubSeq(before, ahead + 1, Len(before))

\* The analysis of a list that is not empty.
FaultTree(vectors) ==
    LET comps == ComponentsOf(vectors)
        component_probs ==
            [k \in DOMAIN comps |-> or_gate(ProbabilitiesOf(vectors, comps[k]))]
        top_event == or_gate(component_probs)
        sorted == SortedByRisk(vectors)
        critical == SubSeq(sorted, 1, Min(5, Len(sorted)))
    IN  [top_event_probability |-> Round4(top_event),
         component_probabilities |->
             [k \in DOMAIN comps |-> <<comps[k], Round4(component_probs[k])>>],
         critical_paths |->
             [k \in DOMAIN critical |->
                 [description |-> critical[k].vector.description,
                  risk_score |-> critical[k].vector.risk_score]]]

fault_tree_analysis(vectors) ==
    IF vectors = <<>>
    THEN [top_event_probability |-> 0, critical_paths |-> <<>>]
    ELSE FaultTree(vectors)

(***************************************************************************)
(* PatternRecognizerAgent: catalog and relevance                           *)
(***************************************************************************)
\* The catalog of the class.  `regex` is the set of the fragments of the
\* model's scanned texts that the entry's expression matches.
DEFAULT_PATTERNS ==
    << [name |-> "Singleton Pattern", type |-> "architecture",
        regex |-> {".shared"}, risk_level |-> "MEDIUM"],
       [name |-> "Force Unwrap", type |-> "safety",
        regex |-> {}, risk_level |-> "HIGH"],
       [name |-> "Missing Weak Self", type |-> "memory",
        regex |-> {}, risk_level |-> "HIGH"],
       [name |-> "Side Effect in Init", type |-> "lifecycle",
        regex |-> {}, risk_level |-> "MEDIUM"],
       [name |-> "Interposable Flag", type |-> "linker",
        regex |-> {"-interposable"}, risk_level |-> "CRITICAL"],
       [name |-> "Global Mutable State", type |-> "concurrency",
        regex |-> {}, risk_level |-> "HIGH"],
       [name |-> "Hardcoded Credentials", type |-> "security",
        regex |-> {}, risk_level |-> "CRITICAL"],
       [name |-> "Race Condition Pattern", type |-> "concurrency",
        regex |-> {}, risk_level |-> "HIGH"] >>

relevance_map ==
    ("memory" :> {"leak", "retain", "weak", "strong"}) @@
    ("concurrency" :> {"race", "async", "thread", "concurrent"}) @@
    ("security" :> {"vulnerable", "exposed", "untrusted"}) @@
    ("safety" :> {"crash", "fail", "unsafe"})

is_pattern_relevant(axiom, pattern) ==
    LET inv == axiom.inverted_statement
        keywords == IF pattern.type \in DOMAIN relevance_map
                    THEN relevance_map[pattern.type] ELSE {}
    IN  \E kw \in keywords : Contains(inv, kw)

(***************************************************************************)
(* Direct scanning.  A scanned text is a sequence of fragments separated   *)
(* by blanks, each fragment matched as a whole by at most one expression.  *)
(***************************************************************************)
\* compiled.findall(text): the matches, in the order of the text.
findall(regex, text) == SelectSeq(text, LAMBDA t : t \in regex)

\* PatternRecognizerAgent.scan_text: the list it returns.
scan_text(text) ==
    LET Found(k) == findall(DEFAULT_PATTERNS[k].regex, text)
        hits == SelectSeq([k \in DOMAIN DEFAULT_PATTERNS |-> k],
                          LAMBDA k : Found(k) # <<>>)
    IN  [i \in DOMAIN hits |->
            [pattern |-> DEFAULT_PATTERNS[hits[i]].name,
             risk_level |-> DEFAULT_PATTERNS[hits[i]].risk_level,
             occurrences |-> Len(Found(hits[i])),
             samples |-> SubSeq(Found(hits[i]), 1, Min(3, Len(Found(hits[i]))))]]

\* xcode_forensic PatternRecognizer.PATTERNS: (regex, tag, description,
\* severity).
PATTERNS ==
    << [regex |-> {"-Xlinker -interposable"}, tag |-> "INTERPOSABLE_FLAG",
        desc |-> "Correct -interposable flag present", severity |-> "CONFIG"],
       [regex |-> {}, tag |-> "UNMANGLED_SYMBOL",
        desc |-> "dlsym with unmangled Swift symbol", severity |-> "CRITICAL"],
       [regex |-> {}, tag |-> "GIANT_TEST",
        desc |-> "TCA Assertion Roulette - analytics in test", severity |-> "MEDIUM"],
       [regex |-> {}, tag |-> "DOTNET_HALLUCINATION",
        desc |-> "Windows IIS command in Swift code", severity |-> "HIGH"],
       [regex |-> {}, tag |-> "GOLANG_HALLUCINATION",
        desc |-> "GoLang environment/command in Swift", severity |-> "HIGH"],
       [regex |-> {}, tag |-> "INIT_LEAK",
        desc |-> "StateObject initialized inline in declaration", severity |-> "HIGH"],
       [regex |-> {}, tag |-> "STATE_INIT",
        desc |-> "@State with inline class initialization", severity |-> "MEDIUM"],
       [regex |-> {}, tag |-> "INIT_SIDE_EFFECT",
        desc |-> "Side-effect detected in initializer", severity |-> "CRITICAL"],
       [regex |-> {"as!"}, tag |-> "FORCE_CAST",
        desc |-> "Force cast can cause runtime crash", severity |-> "HIGH"],
       [regex |-> {"try!"}, tag |-> "FORCE_TRY",
        desc |-> "Force try can cause runtime crash", severity |-> "HIGH"],
       [regex |-> {"[weak self]"}, tag |-> "WEAK_SELF",
        desc |-> "Proper weak self in closure (GOOD)", severity |-> "GOOD"],
       [regex |-> {}, tag |-> "STRONG_SELF_CLOSURE",
        desc |-> "Strong self capture in closure - potential leak", severity |-> "MEDIUM"],
       [regex |-> {}, tag |-> "MAIN_QUEUE_SELF",
        desc |-> "Main queue async with strong self", severity |-> "MEDIUM"],
       [regex |-> {}, tag |-> "TIMER_SELECTOR",
        desc |-> "Timer with selector - potential retain cycle", severity |-> "MEDIUM"] >>

\* Mutant: a match of a GOOD signature is a finding too.
Reported_always(severity) == TRUE

\* if severity != "GOOD": findings.append(finding)
Reported(severity) == severity # "GOOD"

\* xcode_forensic PatternRecognizer.analyze: the findings it returns, those
\* of the signatures first, then the one of the configuration check.
analyze(artifact) ==
    LET Found(k) == findall(PATTERNS[k].regex, artifact.code)
        hits == SelectSeq([k \in DOMAIN PATTERNS |-> k],
                          LAMBDA k : /\ PATTERNS[k].severity # "CONFIG"
                                     /\ Found(k) # <<>>
                                     /\ Reported(PATTERNS[k].severity))
        flagged == \E i \in DOMAIN artifact.config :
                      artifact.config[i] \in {"-interposable", "-Xlinker"}
    IN  [i \in DOMAIN hits |->
            [type |-> PATTERNS[hits[i]].tag,
             desc |-> PATTERNS[hits[i]].desc,
             severity |-> PATTERNS[hits[i]].severity,
             occurrences |-> Len(Found(hits[i])),
             samples |-> SubSeq(Found(hits[i]), 1, Min(3, Len(Found(hits[i]))))]]
        \o  IF artifact.config # <<>>
            THEN IF ~flagged
                 THEN << [type |-> "MISSING_INTERPOSABLE",
                          desc |-> "Missing -Xlinker -interposable flag",
                          severity |-> "CRITICAL",
                          occurrences |-> 1,
                          samples |-> << <<"Current", SP, "flags:", SP, "'">>
                                         \o artifact.config \o <<"'">> >>] >>
                 ELSE <<>>
            ELSE << [type |-> "NO_CONFIG",
                     desc |-> "No linker configuration provided",
                     severity |-> "HIGH",
                     occurrences |-> 1,
                     samples |-> << <<"Empty", SP, "config", SP, "context">> >>] >>

(***************************************************************************)
(* State                                                                   *)
(***************************************************************************)
Inverters == {"AxiomInverter1", "AxiomInverter2"}

Matchers == {"PatternRecognizer"}

Assessors == {"PRA"}

Agents == Inverters \cup Matchers \cup Assessors

VARIABLES
    axioms,           \* table axioms, in id order: row i has id i
    failure_vectors,  \* table failure_vectors, in id order
    patterns,         \* table patterns, in id order
    events,           \* table events, in id order
    subscribers,      \* Blackboard.subscribers: the queues, in subscription order
    pc,               \* where each agent thread is in Agent.run
    running,          \* Agent.running
    work,             \* the rows of the agent's current process() still to do
    pidx,             \* PatternRecognizer: next index into compiled_patterns
    tasks_processed,  \* Agent.stats["tasks_processed"]
    rpc,              \* export_report: how many of its queries have run
    report,           \* export_report: the dict being built
    errors,           \* Agent.stats["errors"]
    stop_pc,          \* MultiAgentSystem.stop: where the call is
    stop_i,           \* MultiAgentSystem.stop: index into self.agents
    wait_pc,          \* wait_for_analysis: where the call is
    last_count,       \* wait_for_analysis: last_count
    stable_for,       \* wait_for_analysis: stable_for, in half seconds
    polls,            \* wait_for_analysis: the counts read, one per poll
    arg,              \* the argument of a call of a pure function
    out,              \* what the last call of a caller returned
    catalog_id,       \* PatternRecognizerAgent.DEFAULT_PATTERNS[k]["id"]
    stats             \* xcode_forensic PatternRecognizer.stats

store == <<axioms, failure_vectors, patterns, events, subscribers>>

agentVars == <<pc, running, work, pidx, tasks_processed>>

reportVars == <<rpc, report>>

stopVars == <<stop_pc, stop_i>>

waitVars == <<wait_pc, last_count, stable_for, polls>>

\* The rule catalog's id keys and the forensic recognizer's counters.
scanVars == <<catalog_id, stats>>

\* The agents' error counters, the orchestrator's calls and the callers'
\* results.
sessionVars == <<errors, stop_pc, stop_i, wait_pc, last_count, stable_for,
                 polls, arg, out>>

vars == <<axioms, failure_vectors, patterns, events, subscribers,
          pc, running, work, pidx, tasks_processed, rpc, report,
          errors, stop_pc, stop_i, wait_pc, last_count, stable_for,
          polls, arg, out,
          catalog_id, stats>>

\* The axioms a producer supplies in this model.
\* "writes atomic" negates to "writes interleaved and race-prone":
\* storage 0.05 + race 0.25 = 0.30, recorded.
InputRace ==
    [component |-> "FileSystem", domain |-> "storage",
     statement |-> Phrase(<<"writes", "atomic">>)]

\* "stable" negates to "unstable and volatile": memory 0.15, recorded.
InputStable ==
    [component |-> "Memory", domain |-> "memory",
     statement |-> Phrase(<<"stable">>)]

\* "cached" negates to "uncached and cold": no domain, default 0.10, which
\* is not above the threshold: never recorded.
InputCache ==
    [component |-> "Cache", domain |-> None,
     statement |-> Phrase(<<"cached">>)]

AxiomInputs == {InputRace, InputStable, InputCache}

\* An id no axiom of a run gets: what a caller with a stale or wrong
\* reference passes.
UnknownId == MaxAxioms + 1

\* Probabilities and severities a caller outside the agents records.
DirectLevels == {0, 100}

(***************************************************************************)
(* Blackboard: mutations                                                   *)
(***************************************************************************)
\* _log_event: INSERT INTO events.
log_event(agent, event_type, payload) ==
    events' = Append(events, [agent |-> agent, event_type |-> event_type,
                              payload |-> payload])

\* Mutant: the loop of _notify stops one subscriber short.
notify_all_but_last(event) ==
    subscribers' = [i \in DOMAIN subscribers |->
        IF i < Len(subscribers) THEN Append(subscribers[i], event)
        ELSE subscribers[i]]

\* _notify: put_nowait on every subscriber; queue.Queue() is unbounded, so
\* queue.Full is never raised.
notify(event) ==
    subscribers' = [i \in DOMAIN subscribers |-> Append(subscribers[i], event)]

subscribe ==
    /\ subscribers' = Append(subscribers, <<>>)
    /\ UNCHANGED <<axioms, failure_vectors, patterns, events>>

\* Mutant: every row is inserted under the id 1.
add_axiom_same_id(component, statement, domain) ==
    LET axiom_id == 1
    IN  /\ axioms' = Append(axioms,
               [id |-> axiom_id, component |-> component, domain |-> domain,
                statement |-> statement, inverted_statement |-> NULL,
                status |-> "PENDING", updated_at |-> FALSE])
        /\ log_event("Blackboard", "AXIOM_ADDED",
               [axiom_id |-> axiom_id, component |-> component,
                statement |-> statement])
        /\ notify([type |-> "AXIOM_ADDED", axiom_id |-> axiom_id])
        /\ UNCHANGED <<failure_vectors, patterns>>

add_axiom(component, statement, domain) ==
    LET axiom_id == Len(axioms) + 1
    IN  /\ axioms' = Append(axioms,
               [id |-> axiom_id, component |-> component, domain |-> domain,
                statement |-> statement, inverted_statement |-> NULL,
                status |-> "PENDING", updated_at |-> FALSE])
        /\ log_event("Blackboard", "AXIOM_ADDED",
               [axiom_id |-> axiom_id, component |-> component,
                statement |-> statement])
        /\ notify([type |-> "AXIOM_ADDED", axiom_id |-> axiom_id])
        /\ UNCHANGED <<failure_vectors, patterns>>

\* Mutant: the UPDATE sets the negated statement and leaves the status.
update_axiom_inversion_keeps_status(axiom_id, inverted_statement) ==
    /\ axioms' = [i \in DOMAIN axioms |->
           IF axioms[i].id = axiom_id
           THEN [axioms[i] EXCEPT !.inverted_statement = inverted_statement,
                                  !.updated_at = TRUE]
           ELSE axioms[i]]
    /\ log_event("AxiomInverter", "AXIOM_INVERTED",
           [axiom_id |-> axiom_id, inverted |-> inverted_statement])
    /\ notify([type |-> "AXIOM_INVERTED", axiom_id |-> axiom_id])
    /\ UNCHANGED <<failure_vectors, patterns>>

\* UPDATE axioms ... WHERE id = ?, then the event, whatever the UPDATE matched.
update_axiom_inversion(axiom_id, inverted_statement) ==
    /\ axioms' = [i \in DOMAIN axioms |->
           IF axioms[i].id = axiom_id
           THEN [axioms[i] EXCEPT !.inverted_statement = inverted_statement,
                                  !.status = "INVERTED",
                                  !.updated_at = TRUE]
           ELSE axioms[i]]
    /\ log_event("AxiomInverter", "AXIOM_INVERTED",
           [axiom_id |-> axiom_id, inverted |-> inverted_statement])
    /\ notify([type |-> "AXIOM_INVERTED", axiom_id |-> axiom_id])
    /\ UNCHANGED <<failure_vectors, patterns>>

\* Mutant: the score is the sum of probability and severity.
record_failure_vector_sum(axiom_id, description, probability, severity, mechanism) ==
    LET risk_score == probability + severity
        vector_id == Len(failure_vectors) + 1
    IN  /\ failure_vectors' = Append(failure_vectors,
               [id |-> vector_id, axiom_id |-> axiom_id,
                description |-> description, mechanism |-> mechanism,
                probability |-> probability, severity |-> severity,
                risk_score |-> risk_score, status |-> "IDENTIFIED"])
        /\ log_event("PRA", "VECTOR_RECORDED",
               [vector_id |-> vector_id, risk_score |-> risk_score])
        /\ notify([type |-> "VECTOR_RECORDED", vector_id |-> vector_id])
        /\ UNCHANGED <<axioms, patterns>>

record_failure_vector(axiom_id, description, probability, severity, mechanism) ==
    LET risk_score == probability * severity
        vector_id == Len(failure_vectors) + 1
    IN  /\ failure_vectors' = Append(failure_vectors,
               [id |-> vector_id, axiom_id |-> axiom_id,
                description |-> description, mechanism |-> mechanism,
                probability |-> probability, severity |-> severity,
                risk_score |-> risk_score, status |-> "IDENTIFIED"])
        /\ log_event("PRA", "VECTOR_RECORDED",
               [vector_id |-> vector_id, risk_score |-> risk_score])
        /\ notify([type |-> "VECTOR_RECORDED", vector_id |-> vector_id])
        /\ UNCHANGED <<axioms, patterns>>

\* Mutant: the UPDATE has no WHERE clause and increments every rule.
increment_pattern_occurrence_all(pattern_id) ==
    /\ patterns' = [i \in DOMAIN patterns |->
           [patterns[i] EXCEPT !.occurrences = @ + 1]]
    /\ UNCHANGED <<axioms, failure_vectors, events, subscribers>>

\* UPDATE patterns SET occurrences = occurrences + 1 WHERE id = ?; no event.
increment_pattern_occurrence(pattern_id) ==
    /\ patterns' = [i \in DOMAIN patterns |->
           IF patterns[i].id = pattern_id
           THEN [patterns[i] EXCEPT !.occurrences = @ + 1]
           ELSE patterns[i]]
    /\ UNCHANGED <<axioms, failure_vectors, events, subscribers>>

(***************************************************************************)
(* Blackboard: queries                                                     *)
(***************************************************************************)
IsPending(row) == row.status = "PENDING"

IsInverted(row) == row.status = "INVERTED"

PendingRow(row) ==
    [id |-> row.id, component |-> row.component, domain |-> row.domain,
     statement |-> row.statement]

InvertedRow(row) ==
    [id |-> row.id, component |-> row.component, domain |-> row.domain,
     statement |-> row.statement, inverted_statement |-> row.inverted_statement]

\* Mutant: the query leaves out the newest pending axiom.
get_pending_axioms_but_newest ==
    LET rows == SelectSeq(axioms, IsPending)
    IN  [i \in 1..(Len(rows) - 1) |-> PendingRow(rows[i])]

get_pending_axioms ==
    LET rows == SelectSeq(axioms, IsPending)
    IN  [i \in DOMAIN rows |-> PendingRow(rows[i])]

\* Mutant: the query has no WHERE clause and returns the axioms of every
\* status.
get_inverted_axioms_any_status ==
    [i \in DOMAIN axioms |-> InvertedRow(axioms[i])]

get_inverted_axioms ==
    LET rows == SelectSeq(axioms, IsInverted)
    IN  [i \in DOMAIN rows |-> InvertedRow(rows[i])]

\* Mutant: a record goes before the stored records of the same score.
RECURSIVE InsertDesc_before_ties(_, _)
InsertDesc_before_ties(sorted, v) ==
    IF sorted = <<>> THEN <<v>>
    ELSE IF Head(sorted).risk_score > v.risk_score
         THEN <<Head(sorted)>> \o InsertDesc_before_ties(Tail(sorted), v)
         ELSE <<v>> \o sorted

\* Stable insertion of v into a sequence sorted by risk_score descending.
RECURSIVE InsertDesc(_, _)
InsertDesc(sorted, v) ==
    IF sorted = <<>> THEN <<v>>
    ELSE IF Head(sorted).risk_score >= v.risk_score
         THEN <<Head(sorted)>> \o InsertDesc(Tail(sorted), v)
         ELSE <<v>> \o sorted

RECURSIVE SortDesc(_)
SortDesc(rows) ==
    IF rows = <<>> THEN <<>>
    ELSE InsertDesc(SortDesc(SubSeq(rows, 1, Len(rows) - 1)), rows[Len(rows)])

\* fv.* LEFT JOIN axioms a ON fv.axiom_id = a.id
JoinedRow(v) ==
    LET hit == {i \in DOMAIN axioms : axioms[i].id = v.axiom_id}
        a == axioms[CHOOSE i \in hit : TRUE]
    IN  [vector |-> v,
         component |-> IF hit = {} THEN None ELSE a.component,
         statement |-> IF hit = {} THEN NULL ELSE a.statement,
         inverted_statement |-> IF hit = {} THEN NULL ELSE a.inverted_statement]

get_all_failure_vectors ==
    LET rows == SortDesc(failure_vectors)
    IN  [i \in DOMAIN rows |-> JoinedRow(rows[i])]

get_patterns == patterns

RECURSIVE SumScores(_)
SumScores(rows) ==
    IF rows = <<>> THEN 0 ELSE Head(rows).risk_score + SumScores(Tail(rows))

RECURSIVE MaxScore(_)
MaxScore(rows) ==
    IF rows = <<>> THEN 0 ELSE Max(Head(rows).risk_score, MaxScore(Tail(rows)))

\* round(num / den), ties to even.
RoundDiv(num, den) ==
    LET q == num \div den
        r == num % den
    IN  IF 2 * r < den THEN q
        ELSE IF 2 * r > den THEN q + 1
        ELSE IF q % 2 = 0 THEN q ELSE q + 1

\* Mutant: the count of negated axioms counts the pending ones too.
get_statistics_counts_pending ==
    LET n == Len(failure_vectors)
    IN  [total_axioms |-> Len(axioms),
         inverted_axioms |-> Len(axioms),
         failure_vectors |-> n,
         avg_risk_score |->
             IF n = 0 THEN 0 ELSE RoundDiv(SumScores(failure_vectors), n * 10),
         max_risk_score |->
             IF n = 0 THEN 0 ELSE RoundDiv(MaxScore(failure_vectors), 10)]

\* Mutant: without a risk record the maximum defaults to 1.
get_statistics_max_defaults_to_one ==
    LET n == Len(failure_vectors)
    IN  [total_axioms |-> Len(axioms),
         inverted_axioms |-> Len(SelectSeq(axioms, IsInverted)),
         failure_vectors |-> n,
         avg_risk_score |->
             IF n = 0 THEN 0 ELSE RoundDiv(SumScores(failure_vectors), n * 10),
         max_risk_score |->
             IF n = 0 THEN 1000 ELSE RoundDiv(MaxScore(failure_vectors), 10)]

\* avg_risk_score and max_risk_score are round(x, 3): thousandths.
get_statistics ==
    LET n == Len(failure_vectors)
    IN  [total_axioms |-> Len(axioms),
         inverted_axioms |-> Len(SelectSeq(axioms, IsInverted)),
         failure_vectors |-> n,
         avg_risk_score |->
             IF n = 0 THEN 0 ELSE RoundDiv(SumScores(failure_vectors), n * 10),
         max_risk_score |->
             IF n = 0 THEN 0 ELSE RoundDiv(MaxScore(failure_vectors), 10)]

(***************************************************************************)
(* Init: MultiAgentSystem() and add_agent() for every agent, as in main(). *)
(* Each Agent.__init__ subscribes one queue; PatternRecognizerAgent's      *)
(* _initialize_patterns registers DEFAULT_PATTERNS as pattern ids 1..8 and *)
(* compiles all eight (each regex is valid).                               *)
(***************************************************************************)
Init ==
    /\ axioms = <<>>
    /\ failure_vectors = <<>>
    /\ patterns = [k \in DOMAIN DEFAULT_PATTERNS |->
           [id |-> k, name |-> DEFAULT_PATTERNS[k].name,
            pattern_type |-> DEFAULT_PATTERNS[k].type,
            risk_level |-> DEFAULT_PATTERNS[k].risk_level,
            occurrences |-> 0]]
    /\ events = <<>>
    /\ subscribers = [i \in 1..Cardinality(Agents) |-> <<>>]
    /\ pc = [a \in Agents |-> "new"]
    /\ running = [a \in Agents |-> TRUE]
    /\ work = [a \in Agents |-> <<>>]
    /\ pidx = [a \in Matchers |-> 1]
    /\ tasks_processed = [a \in Agents |-> 0]
    /\ rpc = 0
    /\ report = [statistics |-> <<>>, axioms |-> <<>>,
                 failure_vectors |-> <<>>, patterns |-> <<>>]
    /\ errors = [a \in Agents |-> 0]
    /\ stop_pc = "idle"
    /\ stop_i = 1
    /\ wait_pc = "idle"
    /\ last_count = 0
    /\ stable_for = 0
    /\ polls = <<>>
    /\ arg = <<>>
    /\ out = <<>>
    /\ catalog_id = [k \in DOMAIN DEFAULT_PATTERNS |-> k]
    /\ stats = [artifacts_analyzed |-> 0, violations_found |-> 0]

(***************************************************************************)
(* Agent: the thread                                                       *)
(*   "new"      constructed, not started                                   *)
(*   "loop"     in run(), at the test of `while self.running` (or in the   *)
(*              sleep before it)                                           *)
(*   "process"  the test was true: process() is about to query the store   *)
(*   "work"     inside the for loop of process()                           *)
(*   "stopped"  run() has returned                                         *)
(***************************************************************************)
\* Thread.start(): run() begins.
Start(a) ==
    /\ pc[a] = "new"
    /\ pc' = [pc EXCEPT ![a] = "loop"]
    /\ UNCHANGED <<store, running, work, pidx, tasks_processed, reportVars, sessionVars, scanVars>>

\* while self.running:
LoopTest(a) ==
    /\ pc[a] = "loop"
    /\ pc' = [pc EXCEPT ![a] = IF running[a] THEN "process" ELSE "stopped"]
    /\ UNCHANGED <<store, running, work, pidx, tasks_processed, reportVars, sessionVars, scanVars>>

\* Agent.stop()
Stop(a) ==
    /\ running[a]
    /\ running' = [running EXCEPT ![a] = FALSE]
    /\ UNCHANGED <<store, pc, work, pidx, tasks_processed, reportVars, sessionVars, scanVars>>

\* Mutant: the exception is not caught; run() ends with it.
Fail_fatal(a) ==
    /\ pc[a] \in {"process", "work"}
    /\ errors[a] < MaxErrors
    /\ pc' = [pc EXCEPT ![a] = "stopped"]
    /\ work' = [work EXCEPT ![a] = <<>>]
    /\ UNCHANGED <<store, running, pidx, tasks_processed, reportVars,
                   errors, stopVars, waitVars, arg, out, scanVars>>

\* process() raises an Exception (a query or a write of the store fails):
\* except Exception counts it, on_error prints it, and control is back at
\* the test of the loop, without the sleep.
Fail(a) ==
    /\ pc[a] \in {"process", "work"}
    /\ errors[a] < MaxErrors
    /\ errors' = [errors EXCEPT ![a] = @ + 1]
    /\ pc' = [pc EXCEPT ![a] = "loop"]
    /\ work' = [work EXCEPT ![a] = <<>>]
    /\ UNCHANGED <<store, running, pidx, tasks_processed, reportVars,
                   stopVars, waitVars, arg, out, scanVars>>

\* The agent's position after a step that leaves `rows` to do.
After(rows) == IF rows = <<>> THEN "loop" ELSE "work"

(***************************************************************************)
(* AxiomInverterAgent.process                                              *)
(***************************************************************************)
InverterPoll(a) ==
    /\ pc[a] = "process"
    /\ work' = [work EXCEPT ![a] = get_pending_axioms]
    /\ pc' = [pc EXCEPT ![a] = After(get_pending_axioms)]
    /\ UNCHANGED <<store, running, pidx, tasks_processed, reportVars, sessionVars, scanVars>>

InverterStep(a) ==
    /\ pc[a] = "work"
    /\ LET axiom == Head(work[a])
           inverted == invert_logic(axiom.statement)
       IN  update_axiom_inversion(axiom.id, inverted)
    /\ tasks_processed' = [tasks_processed EXCEPT ![a] = @ + 1]
    /\ work' = [work EXCEPT ![a] = Tail(@)]
    /\ pc' = [pc EXCEPT ![a] = After(Tail(work[a]))]
    /\ UNCHANGED <<running, pidx, reportVars, sessionVars, scanVars>>

(***************************************************************************)
(* PatternRecognizerAgent.process.  compiled_patterns[k] holds the dict    *)
(* DEFAULT_PATTERNS[k] itself, whose "id" key is catalog_id[k], read when  *)
(* the increment is made.  The iterations that touch nothing but           *)
(* the loop variables (a row without inverted statement, a pattern that is *)
(* not relevant) are taken together with the next one that increments.     *)
(***************************************************************************)
Falsy(text) == text = NULL \/ text = <<>>

\* From pattern index k of the first of rows: the next <<rows, k>> whose
\* pattern is relevant to its row, or <<<<>>, 1>> when the loops run out.
RECURSIVE NextHit(_, _)
NextHit(rows, k) ==
    IF rows = <<>> THEN <<rows, 1>>
    ELSE IF Falsy(Head(rows).inverted_statement) \/ k > Len(DEFAULT_PATTERNS)
         THEN NextHit(Tail(rows), 1)
    ELSE IF is_pattern_relevant(Head(rows), DEFAULT_PATTERNS[k])
         THEN <<rows, k>>
    ELSE NextHit(rows, k + 1)

MatcherPoll(a) ==
    /\ pc[a] = "process"
    /\ LET hit == NextHit(get_inverted_axioms, 1)
       IN  /\ work' = [work EXCEPT ![a] = hit[1]]
           /\ pidx' = [pidx EXCEPT ![a] = hit[2]]
           /\ pc' = [pc EXCEPT ![a] = After(hit[1])]
    /\ UNCHANGED <<store, running, tasks_processed, reportVars, sessionVars, scanVars>>

MatcherStep(a) ==
    /\ pc[a] = "work"
    /\ patterns[catalog_id[pidx[a]]].occurrences < MaxOccurrences
    /\ increment_pattern_occurrence(catalog_id[pidx[a]])
    /\ tasks_processed' = [tasks_processed EXCEPT ![a] = @ + 1]
    /\ LET hit == NextHit(work[a], pidx[a] + 1)
       IN  /\ work' = [work EXCEPT ![a] = hit[1]]
           /\ pidx' = [pidx EXCEPT ![a] = hit[2]]
           /\ pc' = [pc EXCEPT ![a] = After(hit[1])]
    /\ UNCHANGED <<running, reportVars, sessionVars, scanVars>>

(***************************************************************************)
(* PRAAgent.process.  The rows whose probability is not above 0.1 change   *)
(* nothing: they are passed over together with the next row that records.  *)
(***************************************************************************)
\* Mutant: a probability of exactly 0.1 is significant too.
Significant_from_threshold(axiom) == assess_risk(axiom)[1] >= 10

Significant(axiom) == assess_risk(axiom)[1] > 10

RECURSIVE NextSignificant(_)
NextSignificant(rows) ==
    IF rows = <<>> THEN rows
    ELSE IF Significant(Head(rows)) THEN rows
    ELSE NextSignificant(Tail(rows))

AssessorPoll(a) ==
    /\ pc[a] = "process"
    /\ LET rows == NextSignificant(get_inverted_axioms)
       IN  /\ work' = [work EXCEPT ![a] = rows]
           /\ pc' = [pc EXCEPT ![a] = After(rows)]
    /\ UNCHANGED <<store, running, pidx, tasks_processed, reportVars, sessionVars, scanVars>>

AssessorStep(a) ==
    /\ pc[a] = "work"
    /\ Len(failure_vectors) < MaxVectors
    /\ LET axiom == Head(work[a])
           risk == assess_risk(axiom)
       IN  record_failure_vector(axiom.id, generate_failure_description(axiom),
                                 risk[1], risk[2], identify_mechanism(axiom))
    /\ tasks_processed' = [tasks_processed EXCEPT ![a] = @ + 1]
    /\ LET rows == NextSignificant(Tail(work[a]))
       IN  /\ work' = [work EXCEPT ![a] = rows]
           /\ pc' = [pc EXCEPT ![a] = After(rows)]
    /\ UNCHANGED <<running, pidx, reportVars, sessionVars, scanVars>>

(***************************************************************************)
(* Callers outside the agents                                              *)
(***************************************************************************)
\* MultiAgentSystem.add_axiom
AddAxiom(input) ==
    /\ Len(axioms) < MaxAxioms
    /\ add_axiom(input.component, input.statement, input.domain)
    /\ UNCHANGED <<agentVars, reportVars, sessionVars, scanVars>>

Subscribe ==
    /\ Len(subscribers) < Cardinality(Agents) + MaxSubscriptions
    /\ subscribe
    /\ UNCHANGED <<agentVars, reportVars, sessionVars, scanVars>>

DirectText == Phrase(<<"never", "holds">>)

DirectInversions ==
    Cardinality({i \in DOMAIN events :
        /\ events[i].event_type = "AXIOM_INVERTED"
        /\ events[i].payload.axiom_id = UnknownId})

DirectVectors ==
    Cardinality({i \in DOMAIN failure_vectors :
        failure_vectors[i].axiom_id = UnknownId})

\* update_axiom_inversion with an id that is not in the store.
NegateUnknown ==
    /\ DirectInversions < MaxDirectCalls
    /\ update_axiom_inversion(UnknownId, DirectText)
    /\ UNCHANGED <<agentVars, reportVars, sessionVars, scanVars>>

\* record_failure_vector by a caller that chooses probability and severity.
RecordDirect(probability, severity) ==
    /\ DirectVectors < MaxDirectCalls
    /\ Len(failure_vectors) < MaxVectors
    /\ record_failure_vector(UnknownId, DirectText, probability, severity, NULL)
    /\ UNCHANGED <<agentVars, reportVars, sessionVars, scanVars>>

\* increment_pattern_occurrence with an id that is not in the store.
IncrementUnknown ==
    /\ increment_pattern_occurrence(Len(patterns) + 1)
    /\ UNCHANGED <<agentVars, reportVars, sessionVars, scanVars>>

\* get_all_failure_vectors() by a caller.
Vectors ==
    /\ out' = get_all_failure_vectors
    /\ UNCHANGED <<store, agentVars, reportVars, errors, stopVars, waitVars,
                   arg, scanVars>>

\* get_statistics() by a caller.
Statistics ==
    /\ out' = get_statistics
    /\ UNCHANGED <<store, agentVars, reportVars, errors, stopVars, waitVars,
                   arg, scanVars>>

\* PRAAgent.fault_tree_analysis over the list of risks, by a caller.
Analyse ==
    /\ out' = fault_tree_analysis(get_all_failure_vectors)
    /\ UNCHANGED <<store, agentVars, reportVars, errors, stopVars, waitVars,
                   arg, scanVars>>

(***************************************************************************)
(* MultiAgentSystem.stop, called once start() has started every agent of   *)
(* self.agents, as in main(): agent.stop() for each agent of self.agents,  *)
(* then agent.join(timeout=2.0) for each.  A join returns when its thread  *)
(* has ended or when its two seconds are over, whichever is first: nothing *)
(* the model holds delays its return.                                      *)
(***************************************************************************)
\* self.agents, in the order of add_agent: the agents the orchestrator
\* holds.  The other two agents are constructed on the same blackboard
\* without add_agent; start() and stop() do not reach them.
agents == <<"AxiomInverter1", "AxiomInverter2">>

Orchestrated == {agents[i] : i \in DOMAIN agents}

StopCall ==
    /\ stop_pc = "idle"
    /\ \A a \in Orchestrated : pc[a] # "new"
    /\ stop_pc' = "signal"
    /\ stop_i' = 1
    /\ UNCHANGED <<store, agentVars, reportVars, errors, waitVars, arg, out, scanVars>>

\* Mutant: the first loop of stop() leaves out the last agent.
StopSignal_skips_last ==
    /\ stop_pc = "signal"
    /\ running' = IF stop_i < Len(agents)
                  THEN [running EXCEPT ![agents[stop_i]] = FALSE]
                  ELSE running
    /\ stop_i' = IF stop_i < Len(agents) THEN stop_i + 1 ELSE 1
    /\ stop_pc' = IF stop_i < Len(agents) THEN "signal" ELSE "join"
    /\ UNCHANGED <<store, pc, work, pidx, tasks_processed, reportVars,
                   errors, waitVars, arg, out, scanVars>>

\* for agent in self.agents: agent.stop()
StopSignal ==
    /\ stop_pc = "signal"
    /\ running' = [running EXCEPT ![agents[stop_i]] = FALSE]
    /\ stop_i' = IF stop_i < Len(agents) THEN stop_i + 1 ELSE 1
    /\ stop_pc' = IF stop_i < Len(agents) THEN "signal" ELSE "join"
    /\ UNCHANGED <<store, pc, work, pidx, tasks_processed, reportVars,
                   errors, waitVars, arg, out, scanVars>>

\* for agent in self.agents: agent.join(timeout=2.0)
StopJoin ==
    /\ stop_pc = "join"
    /\ stop_i' = IF stop_i < Len(agents) THEN stop_i + 1 ELSE 1
    /\ stop_pc' = IF stop_i < Len(agents) THEN "join" ELSE "returned"
    /\ UNCHANGED <<store, agentVars, reportVars, errors, waitVars, arg, out, scanVars>>

(***************************************************************************)
(* MultiAgentSystem.wait_for_analysis(timeout).  Time is counted in polls: *)
(* an iteration of the loop reads the count and sleeps 0.5 s, so poll k+1  *)
(* is 0.5 s after poll k, and `time.time() - start < timeout` holds for    *)
(* the first MaxWaitPolls iterations (a timeout of MaxWaitPolls / 2        *)
(* seconds).  stable_for is counted in half seconds.                       *)
(***************************************************************************)
WaitCall ==
    /\ wait_pc = "idle"
    /\ wait_pc' = "loop"
    /\ last_count' = 0
    /\ stable_for' = 0
    /\ polls' = <<>>
    /\ UNCHANGED <<store, agentVars, reportVars, errors, stopVars, arg, out, scanVars>>

\* One iteration: the loop test is true, the count is read and compared.
WaitPoll ==
    /\ wait_pc = "loop"
    /\ Len(polls) < MaxWaitPolls
    /\ LET current == get_statistics.failure_vectors
       IN  /\ polls' = Append(polls, current)
           /\ IF current = last_count
              THEN /\ stable_for' = stable_for + 1
                   /\ last_count' = last_count
                   /\ wait_pc' = IF stable_for + 1 >= 4 THEN "stable" ELSE "loop"
              ELSE /\ stable_for' = 0
                   /\ last_count' = current
                   /\ wait_pc' = "loop"
    /\ UNCHANGED <<store, agentVars, reportVars, errors, stopVars, arg, out, scanVars>>

\* The loop test is false: the timeout is over.
WaitExpire ==
    /\ wait_pc = "loop"
    /\ Len(polls) >= MaxWaitPolls
    /\ wait_pc' = "timeout"
    /\ UNCHANGED <<store, agentVars, reportVars, errors, stopVars,
                   last_count, stable_for, polls, arg, out, scanVars>>

(***************************************************************************)
(* A call of one of the PRAAgent's scoring functions on an argument of the *)
(* caller's choice.                                                        *)
(***************************************************************************)
\* The words of a negated statement: with a risk keyword (crash, fail,
\* race, vulnerable) or without one (cold).
RiskWords == {"crash", "fail", "failure-prone", "race-prone", "vulnerable", "cold"}

\* Negated statements of one to MaxWords words.
RiskTexts ==
    UNION {{Phrase(ws) : ws \in [1..n -> RiskWords]} : n \in 1..MaxWords}

\* A domain of the table, a domain that is not in it, no domain (NULL
\* column), and "default", which axiom.get("domain", "default") yields for
\* a dict without the key.
RiskDomains ==
    {"memory", "concurrency", "security", "build", "runtime", "network",
     "storage", "quantum", None, "default"}

AssessRisk ==
    /\ arg = <<>>
    /\ \E domain \in RiskDomains, inverted \in RiskTexts :
          LET axiom == [domain |-> domain, inverted_statement |-> inverted]
          IN  /\ arg' = <<"assess_risk", axiom>>
              /\ out' = assess_risk(axiom)
    /\ UNCHANGED <<store, agentVars, reportVars, errors, stopVars, waitVars, scanVars>>

\* Risk scores of [0, 1], in ten-thousandths.
RiskScores == 0..10000

CategorizeRisk ==
    /\ arg = <<>>
    /\ \E risk_score \in RiskScores :
          /\ arg' = <<"categorize_risk", risk_score>>
          /\ out' = categorize_risk(risk_score)
    /\ UNCHANGED <<store, agentVars, reportVars, errors, stopVars, waitVars, scanVars>>

(***************************************************************************)
(***************************************************************************)
(* A call of the fault tree's functions on a list of the caller's choice.  *)
(***************************************************************************)
MaxGateInputs == 3

MaxRecords == 6

\* Probabilities of [0, 1], in hundredths.
GateLevels == {0, 15, 20, 30, 50, 100}

\* Lists of n probabilities.
GateLists(n) == [1..n -> {<<p, 100>> : p \in GateLevels}]

OrGate ==
    /\ arg = <<>>
    /\ \E n \in 0..MaxGateInputs : \E probabilities \in GateLists(n) :
          /\ arg' = <<"or_gate", probabilities>>
          /\ out' = or_gate(probabilities)
    /\ UNCHANGED <<store, agentVars, reportVars, errors, stopVars, waitVars, scanVars>>

AndGate ==
    /\ arg = <<>>
    /\ \E n \in 0..MaxGateInputs : \E probabilities \in GateLists(n) :
          /\ arg' = <<"and_gate", probabilities>>
          /\ out' = and_gate(probabilities)
    /\ UNCHANGED <<store, agentVars, reportVars, errors, stopVars, waitVars, scanVars>>

\* The records a caller passes: the component, the probability and the
\* severity (hundredths) of each; two components, equal and different scores.
RecordKinds ==
    { [component |-> "X", probability |-> 50, severity |-> 50],
      [component |-> "X", probability |-> 20, severity |-> 100],
      [component |-> "Y", probability |-> 50, severity |-> 100],
      [component |-> "Y", probability |-> 50, severity |-> 50] }

\* The dict of the i-th record of the list: its description tells it from
\* the others.
RecordOf(kind, i) ==
    [component |-> kind.component,
     vector |-> [description |-> <<kind.component, SP, "failure", SP, i>>,
                 probability |-> kind.probability,
                 severity |-> kind.severity,
                 risk_score |-> kind.probability * kind.severity]]

\* Lists of n records.
RecordLists(n) ==
    {[i \in 1..n |-> RecordOf(kinds[i], i)] : kinds \in [1..n -> RecordKinds]}

AnalyseList ==
    /\ arg = <<>>
    /\ \E n \in 0..MaxRecords : \E vectors \in RecordLists(n) :
          /\ arg' = <<"fault_tree_analysis", vectors>>
          /\ out' = fault_tree_analysis(vectors)
    /\ UNCHANGED <<store, agentVars, reportVars, errors, stopVars, waitVars, scanVars>>

(***************************************************************************)
(* A call of AxiomInverterAgent.invert_logic on a statement of the         *)
(* caller's choice.                                                        *)
(***************************************************************************)
MaxTokens == 5

\* Statements of n tokens, a token a blank or a word: words in no table
\* (cache, works) and a word of INVERSIONS, with any number of blanks
\* before, between and after them.
Statements(n) ==
    {s \in [1..n -> {SP, "cache", "works", "atomic"}] :
        \A i \in 1..(n - 1) : s[i] = SP \/ s[i + 1] = SP}

InvertLogic ==
    /\ arg = <<>>
    /\ \E n \in 0..MaxTokens : \E statement \in Statements(n) :
          /\ arg' = <<"invert_logic", statement>>
          /\ out' = invert_logic(statement)
    /\ UNCHANGED <<store, agentVars, reportVars, errors, stopVars, waitVars, scanVars>>

(***************************************************************************)
(* PatternRecognizerAgent(blackboard) once more, by a caller: the agent    *)
(* subscribes a queue, and _initialize_patterns inserts a row per entry of *)
(* DEFAULT_PATTERNS and writes the new row's id into the entry, which is   *)
(* the dict of the class that every recognizer's compiled_patterns holds.  *)
(* The store is the first recognizer's, or another store with no pattern   *)
(* rows yet, whose ids are 1..8 too.  The new agent is not started.        *)
(***************************************************************************)
MaxRecognizers == 2

ConstructMatcher ==
    /\ \/ /\ Len(patterns) < MaxRecognizers * Len(DEFAULT_PATTERNS)
          /\ subscribers' = Append(subscribers, <<>>)
          /\ patterns' = patterns \o
                 [k \in DOMAIN DEFAULT_PATTERNS |->
                     [id |-> Len(patterns) + k,
                      name |-> DEFAULT_PATTERNS[k].name,
                      pattern_type |-> DEFAULT_PATTERNS[k].type,
                      risk_level |-> DEFAULT_PATTERNS[k].risk_level,
                      occurrences |-> 0]]
          /\ catalog_id' = [k \in DOMAIN DEFAULT_PATTERNS |-> Len(patterns) + k]
       \/ /\ catalog_id' = [k \in DOMAIN DEFAULT_PATTERNS |-> k]
          /\ UNCHANGED <<patterns, subscribers>>
    /\ UNCHANGED <<axioms, failure_vectors, events, agentVars, reportVars,
                   sessionVars, stats>>

(***************************************************************************)
(* Direct scanning by a caller: scan_text of the store's recognizer, and   *)
(* analyze of the forensic recognizer.                                     *)
(***************************************************************************)
MaxFragments == 5

\* Texts of n fragments: two that rules of DEFAULT_PATTERNS match and one
\* that none matches.
Texts(n) ==
    {Phrase(ws) : ws \in [1..n -> {".shared", "-interposable", "let"}]}

ScanText ==
    /\ arg = <<>>
    /\ \E n \in 0..MaxFragments : \E text \in Texts(n) :
          LET matched == {k \in DOMAIN DEFAULT_PATTERNS :
                             findall(DEFAULT_PATTERNS[k].regex, text) # <<>>}
          IN  /\ arg' = <<"scan_text", text>>
              /\ out' = scan_text(text)
              /\ patterns' = [i \in DOMAIN patterns |->
                     [patterns[i] EXCEPT !.occurrences = @ + Cardinality(
                         {k \in matched : catalog_id[k] = patterns[i].id})]]
    /\ UNCHANGED <<axioms, failure_vectors, events, subscribers, agentVars,
                   reportVars, errors, stopVars, waitVars, scanVars>>

\* Artifacts: code of n fragments (a force try, a force cast, a weak
\* capture, the linker flag, a fragment no signature matches), with no
\* linker flags, the right ones, or others.
Artifacts(n) ==
    {[code |-> Phrase(ws), config |-> config] :
        ws \in [1..n -> {"try!", "as!", "[weak self]",
                         "-Xlinker -interposable", "let"}],
        config \in {<<>>, Phrase(<<"-Xlinker", "-interposable">>),
                    Phrase(<<"-O">>)}}

AnalyzeArtifact ==
    /\ arg = <<>>
    /\ \E n \in 0..MaxFragments : \E artifact \in Artifacts(n) :
          /\ arg' = <<"analyze", artifact>>
          /\ out' = analyze(artifact)
          /\ stats' = [artifacts_analyzed |-> stats.artifacts_analyzed + 1,
                       violations_found |->
                           stats.violations_found + Len(analyze(artifact))]
    /\ UNCHANGED <<store, agentVars, reportVars, errors, stopVars, waitVars,
                   catalog_id>>

(* Blackboard.export_report: four queries, each under its own acquisition  *)
(* of the lock, in the order of the dict literal.                          *)
(***************************************************************************)
ExportStatistics ==
    /\ rpc = 0
    /\ report' = [report EXCEPT !.statistics = get_statistics]
    /\ rpc' = 1
    /\ UNCHANGED <<store, agentVars, sessionVars, scanVars>>

ExportAxioms ==
    /\ rpc = 1
    /\ report' = [report EXCEPT !.axioms = get_inverted_axioms]
    /\ rpc' = 2
    /\ UNCHANGED <<store, agentVars, sessionVars, scanVars>>

ExportVectors ==
    /\ rpc = 2
    /\ report' = [report EXCEPT !.failure_vectors = get_all_failure_vectors]
    /\ rpc' = 3
    /\ UNCHANGED <<store, agentVars, sessionVars, scanVars>>

ExportPatterns ==
    /\ rpc = 3
    /\ report' = [report EXCEPT !.patterns = get_patterns]
    /\ rpc' = 4
    /\ UNCHANGED <<store, agentVars, sessionVars, scanVars>>

(***************************************************************************)
(* Specifications.  Next is the whole system.  Its state space is beyond   *)
(* exhaustive search at any bound that lets two axioms through the three   *)
(* stages, so each property is checked on the sub-system of the agents and *)
(* callers it is about: the agents a specification does not start stay     *)
(* constructed and subscribed, and never run.                              *)
(***************************************************************************)
Thread(a) == Start(a) \/ LoopTest(a)

Inverter(a) == Thread(a) \/ InverterPoll(a) \/ InverterStep(a)

Matcher(a) == Thread(a) \/ MatcherPoll(a) \/ MatcherStep(a)

Assessor(a) == Thread(a) \/ AssessorPoll(a) \/ AssessorStep(a)

Producer(inputs) == \E input \in inputs : AddAxiom(input)

Recorder == \E p \in DirectLevels, s \in DirectLevels : RecordDirect(p, s)

Export == ExportStatistics \/ ExportAxioms \/ ExportVectors \/ ExportPatterns

Next ==
    \/ Producer(AxiomInputs)
    \/ \E a \in Inverters : Inverter(a)
    \/ \E a \in Matchers : Matcher(a)
    \/ \E a \in Assessors : Assessor(a)
    \/ \E a \in Agents : Stop(a)
    \/ Subscribe
    \/ NegateUnknown
    \/ Recorder
    \/ IncrementUnknown
    \/ Export

Spec == Init /\ [][Next]_vars

\* The negation stage: a producer, both inverter agents, and a caller
\* negating an unknown id.
NegationNext ==
    \/ Producer({InputRace, InputCache})
    \/ \E a \in Inverters : Inverter(a)
    \/ NegateUnknown

NegationSpec == Init /\ [][NegationNext]_vars

\* The negation stage with its shutdown, under the scheduling of threads:
\* a thread that can take a step eventually takes one.
LiveNext ==
    \/ Producer({InputRace})
    \/ \E a \in Inverters : Inverter(a)
    \/ \E a \in Inverters : Stop(a)

LiveSpec ==
    /\ Init
    /\ [][LiveNext]_vars
    /\ \A a \in Inverters : WF_vars(Inverter(a))

\* The assessment stage: a producer, one inverter and the assessor.
RiskNext ==
    \/ Producer(AxiomInputs)
    \/ Inverter("AxiomInverter1")
    \/ \E a \in Assessors : Assessor(a)

RiskSpec == Init /\ [][RiskNext]_vars

\* Recording: the assessment stage and a caller recording risks of its own.
RecordNext ==
    \/ Producer({InputRace})
    \/ Inverter("AxiomInverter1")
    \/ \E a \in Assessors : Assessor(a)
    \/ Recorder

RecordSpec == Init /\ [][RecordNext]_vars

\* The report: the assessment stage and export_report.
ReportNext ==
    \/ Producer({InputRace, InputCache})
    \/ Inverter("AxiomInverter1")
    \/ \E a \in Assessors : Assessor(a)
    \/ Export

ReportSpec == Init /\ [][ReportNext]_vars

\* Notification: the three kinds of mutation that notify, and a late
\* subscriber.
EventNext ==
    \/ Producer({InputRace})
    \/ Inverter("AxiomInverter1")
    \/ \E a \in Assessors : Assessor(a)
    \/ Subscribe

EventSpec == Init /\ [][EventNext]_vars

\* Matching: a producer, one inverter, the matcher, and a caller
\* incrementing an unknown pattern id.
MatchNext ==
    \/ Producer(AxiomInputs)
    \/ Inverter("AxiomInverter1")
    \/ \E a \in Matchers : Matcher(a)
    \/ IncrementUnknown

MatchSpec == Init /\ [][MatchNext]_vars

\* The list of risks: the assessment stage over axioms of two scores, and a
\* caller reading the list.
QueryNext ==
    \/ Producer({InputRace, InputStable})
    \/ Inverter("AxiomInverter1")
    \/ \E a \in Assessors : Assessor(a)
    \/ Vectors

QuerySpec == Init /\ [][QueryNext]_vars

\* Summaries: the assessment stage, and a caller asking for the statistics
\* and for the fault tree.
SummaryNext ==
    \/ Producer({InputRace, InputCache})
    \/ Inverter("AxiomInverter1")
    \/ \E a \in Assessors : Assessor(a)
    \/ Statistics
    \/ Analyse

SummarySpec == Init /\ [][SummaryNext]_vars

\* Failures: an inverter whose process() raises, and its stop flag, under
\* the scheduling of threads.
FaultNext ==
    \/ Producer({InputRace, InputCache})
    \/ Inverter("AxiomInverter1")
    \/ Fail("AxiomInverter1")
    \/ Stop("AxiomInverter1")

FaultSpec ==
    /\ Init
    /\ [][FaultNext]_vars
    /\ WF_vars(Inverter("AxiomInverter1"))

MasStop == StopCall \/ StopSignal \/ StopJoin

\* Shutdown: the orchestrator's agents at work on the axioms of a
\* producer, and MultiAgentSystem.stop, under the scheduling of threads.
ShutdownNext ==
    \/ Producer({InputRace})
    \/ \E a \in Orchestrated : Inverter(a)
    \/ MasStop

ShutdownSpec ==
    /\ Init
    /\ [][ShutdownNext]_vars
    /\ \A a \in Orchestrated : WF_vars(Inverter(a))
    /\ WF_vars(MasStop)

Wait == WaitCall \/ WaitPoll \/ WaitExpire

\* Completion detection: the assessment stage and wait_for_analysis.
WaitNext ==
    \/ Producer({InputRace})
    \/ Inverter("AxiomInverter1")
    \/ \E a \in Assessors : Assessor(a)
    \/ Wait

WaitSpec == Init /\ [][WaitNext]_vars

\* Scoring: the assessor's functions called on their own.
ScoringNext == AssessRisk \/ CategorizeRisk

ScoringSpec == Init /\ [][ScoringNext]_vars

(***************************************************************************)
\* The fault tree: its gates and the analysis called on their own.
TreeNext == OrGate \/ AndGate \/ AnalyseList

TreeSpec == Init /\ [][TreeNext]_vars

\* Negation: invert_logic called on its own.
InversionSpec == Init /\ [][InvertLogic]_vars

\* The catalog: the matching stage and a caller constructing recognizers.
CatalogNext ==
    \/ Producer({InputRace})
    \/ Inverter("AxiomInverter1")
    \/ \E a \in Matchers : Matcher(a)
    \/ ConstructMatcher

CatalogSpec == Init /\ [][CatalogNext]_vars

\* Direct scanning: the recognizers' scans called on their own.
ScanNext == ScanText \/ AnalyzeArtifact

ScanSpec == Init /\ [][ScanNext]_vars

(* Properties                                                              *)
(***************************************************************************)
\* The AXIOM_INVERTED events logged for axiom id: one per negation that
\* update_axiom_inversion applied to it.
Negations(id) ==
    {i \in DOMAIN events :
        /\ events[i].event_type = "AXIOM_INVERTED"
        /\ events[i].payload.axiom_id = id}

\* C1: with two inverter agents polling the same store, no axiom is negated
\* twice: the log holds at most one AXIOM_INVERTED event per axiom id.
C1_NoAxiomNegatedTwice ==
    \A id \in DOMAIN axioms : Cardinality(Negations(id)) <= 1

\* C5: in every state of the store, an axiom has a negated statement (the
\* column is not NULL) exactly when its status is the terminal one, INVERTED.
C5_NegatedIffInverted ==
    \A i \in DOMAIN axioms :
        (axioms[i].inverted_statement # NULL) <=> (axioms[i].status = "INVERTED")

\* C5 witness: an inverter has negated one axiom while another is pending.
C5_Witness ==
    /\ \E i \in DOMAIN axioms :
          /\ axioms[i].status = "INVERTED"
          /\ axioms[i].inverted_statement = invert_logic(axioms[i].statement)
    /\ \E i \in DOMAIN axioms :
          axioms[i].status = "PENDING" /\ axioms[i].inverted_statement = NULL
    /\ \E a \in Inverters : tasks_processed[a] > 0

\* C7: update_axiom_inversion with an id that is not in the store changes no
\* axiom, appends nothing to the event log and puts nothing on any
\* subscriber's queue.
C7_UnknownIdIsSilent ==
    [][NegateUnknown =>
          /\ axioms' = axioms
          /\ events' = events
          /\ subscribers' = subscribers]_vars

\* The risk records that reference axiom id.
RecordsOf(id) ==
    {i \in DOMAIN failure_vectors : failure_vectors[i].axiom_id = id}

\* C2: whatever the number of poll cycles of the assessor, the store holds at
\* most one risk record per axiom id.
C2_OneRecordPerAxiom ==
    \A id \in DOMAIN axioms : Cardinality(RecordsOf(id)) <= 1

\* Nothing is left to do: no axiom is pending, and every negated axiom whose
\* probability is above the threshold has its risk record.
WorkExhausted ==
    /\ \A i \in DOMAIN axioms : axioms[i].status = "INVERTED"
    /\ \A i \in DOMAIN axioms :
          Significant(InvertedRow(axioms[i])) => RecordsOf(axioms[i].id) # {}

\* C3: for a finite set of axioms the number of risk records stops changing,
\* so that the stabilization window of wait_for_analysis can pass: once
\* every axiom is negated and every qualifying one has its record, no step
\* adds a record.
C3_RecordCountSettles ==
    [][WorkExhausted => Len(failure_vectors') = Len(failure_vectors)]_vars

\* An inverter thread that is in its loop and has not been told to stop.
IsRunning(a) == pc[a] \notin {"new", "stopped"} /\ running[a]

\* The status of axiom id, "ABSENT" before it is added.
StatusOf(id) == IF id \in DOMAIN axioms THEN axioms[id].status ELSE "ABSENT"

\* C4: under fair scheduling, with an inverter agent running, every axiom
\* that is PENDING in the store eventually is INVERTED (the stored name of
\* NEGATED), unless every inverter has been stopped first.
C4_PendingLeadsToInverted ==
    \A id \in 1..MaxAxioms :
        (StatusOf(id) = "PENDING" /\ \E a \in Inverters : IsRunning(a))
        ~> (StatusOf(id) = "INVERTED" \/ \A a \in Inverters : ~IsRunning(a))

\* C4 witness: an axiom is INVERTED by an inverter that is still running,
\* while the other inverter has been stopped.
C4_Witness ==
    /\ \E id \in DOMAIN axioms : axioms[id].status = "INVERTED"
    /\ \E a \in Inverters : IsRunning(a) /\ tasks_processed[a] > 0
    /\ \E a \in Inverters : pc[a] = "stopped"

\* score = probability * severity, and a score in [0,1] for probability and
\* severity in [0,1] (hundredths and ten-thousandths).
VectorSound(v) ==
    /\ v.risk_score = v.probability * v.severity
    /\ (v.probability \in 0..100 /\ v.severity \in 0..100)
           => v.risk_score \in 0..10000

\* C6: every risk record has risk score = probability * severity, within
\* [0,1] for probability and severity in [0,1], and no step changes a record
\* that is in the store.
C6_ScoreIsProduct ==
    [][/\ \A i \in DOMAIN failure_vectors :
             /\ i \in DOMAIN failure_vectors'
             /\ failure_vectors'[i] = failure_vectors[i]
       /\ \A i \in DOMAIN failure_vectors' : VectorSound(failure_vectors'[i])
      ]_vars

\* C6 witness: the store holds a record of the assessor (0.30 * 0.5 = 0.15)
\* and a record of a caller with probability 1 and severity 1 (score 1).
C6_Witness ==
    /\ \E i \in DOMAIN failure_vectors :
          /\ failure_vectors[i].probability = 30
          /\ failure_vectors[i].severity = 50
          /\ failure_vectors[i].risk_score = 1500
    /\ \E i \in DOMAIN failure_vectors :
          /\ failure_vectors[i].axiom_id = UnknownId
          /\ failure_vectors[i].risk_score = 10000

\* C8: export_report is atomic with respect to concurrent mutations: the
\* report it returns is that of one state of the store, so the risk-record
\* count of its statistics is the length of its list of risk records.
C8_ReportIsOneState ==
    rpc = 4 => report.statistics.failure_vectors = Len(report.failure_vectors)

\* The notification that goes with a logged event.
EventOf(e) ==
    IF e.event_type = "VECTOR_RECORDED"
    THEN [type |-> e.event_type, vector_id |-> e.payload.vector_id]
    ELSE [type |-> e.event_type, axiom_id |-> e.payload.axiom_id]

\* The notifications of the events a step logs, in the order it logs them.
Emitted ==
    LET new == SubSeq(events', Len(events) + 1, Len(events'))
    IN  [k \in DOMAIN new |-> EventOf(new[k])]

\* C9: every event emitted once a channel is subscribed is put on every
\* subscribed channel, in the order of the mutations (the order of the
\* event log), whatever the channel already holds unconsumed; a channel
\* holds nothing emitted before it subscribed.
C9_BroadcastInOrder ==
    [][/\ SubSeq(events', 1, Len(events)) = events
       /\ \A i \in DOMAIN subscribers :
             /\ i \in DOMAIN subscribers'
             /\ subscribers'[i] = subscribers[i] \o Emitted
       /\ \A i \in DOMAIN subscribers' \ DOMAIN subscribers :
             subscribers'[i] = <<>>
      ]_vars

\* C9 witness: a channel subscribed after the first event holds the two or
\* more events emitted since, and not the earlier ones an agent's channel
\* holds.
C9_Witness ==
    /\ Len(subscribers) > Cardinality(Agents)
    /\ Len(subscribers[Len(subscribers)]) >= 2
    /\ Len(subscribers[Len(subscribers)]) < Len(subscribers[1])
    /\ Len(subscribers[1]) = Len(events)

\* C10: every increment of a pattern rule's occurrence counter emits a
\* change event: it is logged and put on every subscriber's queue.
C10_IncrementEmitsEvent ==
    [][(\E k \in DOMAIN patterns :
            patterns'[k].occurrences > patterns[k].occurrences)
       => /\ Len(events') > Len(events)
          /\ \A i \in DOMAIN subscribers :
                Len(subscribers'[i]) > Len(subscribers[i])
      ]_vars

\* C11: every registered pattern rule starts with occurrence counter 0; no
\* step of a producer, an inverter, the matcher or a caller removes a rule
\* or lowers its counter; and increment_pattern_occurrence with an id that
\* is not in the store changes no rule.
C11_OccurrencesNeverDecrease ==
    /\ \A k \in DOMAIN patterns : patterns[k].occurrences = 0
    /\ [][/\ \A k \in DOMAIN patterns :
                /\ k \in DOMAIN patterns'
                /\ patterns'[k].occurrences >= patterns[k].occurrences
          /\ IncrementUnknown => patterns' = patterns
         ]_vars

\* C11 witness: the matcher has incremented one rule twice
\* while another rule is still at 0.
C11_Witness ==
    /\ \E k \in DOMAIN patterns : patterns[k].occurrences = 2
    /\ \E k \in DOMAIN patterns : patterns[k].occurrences = 0
    /\ \E a \in Matchers : tasks_processed[a] >= 2

C13_EmptyYieldsZero ==
    [][failure_vectors = <<>> =>
          /\ Statistics =>
                /\ out'.failure_vectors = 0
                /\ out'.avg_risk_score = 0
                /\ out'.max_risk_score = 0
          /\ Analyse =>
                /\ out'.top_event_probability = 0
                /\ out'.critical_paths = <<>>
      ]_vars

\* C13 witness: every axiom of the store is negated, the assessor is in its
\* loop, nothing is recorded, and a caller got the analysis of the empty list.
C13_Witness ==
    /\ axioms # <<>>
    /\ \A i \in DOMAIN axioms : axioms[i].status = "INVERTED"
    /\ failure_vectors = <<>>
    /\ \E a \in Assessors : pc[a] = "loop"
    /\ out = [top_event_probability |-> 0, critical_paths |-> <<>>]

\* C14: get_statistics is a pure read: a call leaves the axioms, the risk
\* records, the patterns, the event log and the subscribers' queues as they
\* are; a second call made with no mutation in between returns what the
\* first returned; and the counts returned are the number of axioms, of
\* INVERTED axioms and of risk records in the store.
C14_StatisticsIsPureRead ==
    [][Statistics =>
          /\ axioms' = axioms
          /\ failure_vectors' = failure_vectors
          /\ patterns' = patterns
          /\ events' = events
          /\ subscribers' = subscribers
          /\ get_statistics' = out'
          /\ out'.total_axioms = Cardinality(DOMAIN axioms)
          /\ out'.inverted_axioms =
                Cardinality({i \in DOMAIN axioms : axioms[i].status = "INVERTED"})
          /\ out'.failure_vectors = Cardinality(DOMAIN failure_vectors)
      ]_vars

\* C14 witness: a caller got the statistics of a store with two axioms, one
\* of them negated, and a risk record.
C14_Witness ==
    /\ Len(axioms) = 2
    /\ failure_vectors # <<>>
    /\ out = get_statistics
    /\ out.total_axioms = 2
    /\ out.inverted_axioms = 1
    /\ out.avg_risk_score = 150

\* C15: an exception raised during a poll cycle of a worker is caught in
\* run(): it adds exactly one to that worker's error counter and to no
\* other's, the worker is back at the test of its loop and not stopped, and
\* unless it is told to stop it starts another cycle.
C15_FailureIsCounted ==
    /\ [][\A a \in Inverters : Fail(a) =>
             /\ errors'[a] = errors[a] + 1
             /\ \A b \in Agents \ {a} : errors'[b] = errors[b]
             /\ pc'[a] = "loop"
         ]_vars
    /\ \A a \in Inverters :
          (errors[a] > 0 /\ pc[a] = "loop" /\ running[a])
          ~> (pc[a] = "process" \/ ~running[a])

\* C15 witness: an inverter whose cycle failed is in a later cycle, negating.
C15_Witness ==
    \E a \in Inverters :
        /\ errors[a] = 1
        /\ pc[a] = "work"
        /\ running[a]

\* C16: shutdown is cooperative.  A worker's thread ends only from the test
\* of its loop with the stop flag set, never from inside a cycle, and the
\* steps of stop() leave every worker's position and work as they are; a
\* thread that has ended starts no cycle; a started worker whose flag is set
\* eventually is stopped; stop() has set every worker's flag before its
\* first join; and a call of stop() returns.
C16_ShutdownIsCooperative ==
    /\ [][\A a \in Orchestrated :
             /\ (pc'[a] = "stopped" /\ pc[a] # "stopped")
                    => (pc[a] = "loop" /\ ~running[a])
             /\ pc[a] = "stopped" => pc'[a] = "stopped"
             /\ MasStop => (pc'[a] = pc[a] /\ work'[a] = work[a])
         ]_vars
    /\ [](stop_pc \in {"join", "returned"} =>
             \A a \in Orchestrated : ~running[a])
    /\ \A a \in Orchestrated : (~running[a]) ~> (pc[a] = "stopped")
    /\ (stop_pc # "idle") ~> (stop_pc = "returned")

\* C16 witness: stop() has returned, one worker has stopped and the other is
\* still inside the cycle it was in, with work left.
C16_Witness ==
    /\ stop_pc = "returned"
    /\ \E a \in Orchestrated : pc[a] = "work" /\ work[a] # <<>>
    /\ \E a \in Orchestrated : pc[a] = "stopped"

\* C17: wait_for_analysis returns before its timeout only when it has seen
\* the count of risk records unchanged over a window of at least 2 seconds:
\* with a poll every 0.5 s, over its last five polls, also when the count
\* is 0 from the first poll on.
C17_StableForTwoSeconds ==
    wait_pc = "stable" =>
        /\ Len(polls) >= 5
        /\ \A k \in (Len(polls) - 4)..Len(polls) : polls[k] = polls[Len(polls)]

\* C18: the assessor records a risk for a negated axiom only if the
\* probability it computes is above 0.1: an axiom whose probability is 0.1
\* or less has no record, and every record of the assessor has the
\* probability computed for its axiom, in (0.1, 0.95], and a severity in
\* [0.5, 1].
C18_OnlyAboveThreshold ==
    /\ \A i \in DOMAIN axioms :
          (/\ axioms[i].status = "INVERTED"
           /\ assess_risk(InvertedRow(axioms[i]))[1] <= 10)
          => RecordsOf(axioms[i].id) = {}
    /\ \A k \in DOMAIN failure_vectors :
          LET v == failure_vectors[k]
          IN  /\ v.axiom_id \in DOMAIN axioms
              /\ v.probability = assess_risk(InvertedRow(axioms[v.axiom_id]))[1]
              /\ v.probability > 10
              /\ v.probability <= 95
              /\ v.severity >= 50
              /\ v.severity <= 100

\* C18 witness: of two negated axioms the assessor has recorded the one of
\* probability 0.30 and passed over the one of probability 0.10.
C18_Witness ==
    /\ Len(axioms) = 2
    /\ \A i \in DOMAIN axioms : axioms[i].status = "INVERTED"
    /\ \E i \in DOMAIN axioms :
          /\ assess_risk(InvertedRow(axioms[i]))[1] = 10
          /\ RecordsOf(i) = {}
    /\ \E i \in DOMAIN axioms :
          /\ assess_risk(InvertedRow(axioms[i]))[1] = 30
          /\ RecordsOf(i) # {}
    /\ \E a \in Assessors : tasks_processed[a] > 0 /\ pc[a] = "loop"

\* The base prior of a domain, the default one for a domain that is not in
\* the table or is missing.
PriorOf(domain) ==
    CASE domain = "memory" -> 15
      [] domain = "concurrency" -> 20
      [] domain = "security" -> 10
      [] domain = "build" -> 5
      [] domain = "runtime" -> 12
      [] domain = "network" -> 8
      [] domain = "storage" -> 5
      [] OTHER -> 10

\* The boosts of the risk keywords, and the keyword a word carries.
BoostOf ==
    [kw \in {"crash", "vulnerable"} |-> 30] @@ [kw \in {"fail"} |-> 20]
    @@ [kw \in {"race"} |-> 25]

KeywordOf ==
    [w \in {"crash"} |-> "crash"] @@ [w \in {"fail", "failure-prone"} |-> "fail"]
    @@ [w \in {"race-prone"} |-> "race"] @@ [w \in {"vulnerable"} |-> "vulnerable"]

\* The distinct risk keywords present in a text.
KeywordsPresent(text) ==
    {KeywordOf[text[i]] : i \in {j \in DOMAIN text : text[j] \in DOMAIN KeywordOf}}

RECURSIVE SumOfBoosts(_)
SumOfBoosts(kws) ==
    IF kws = {} THEN 0
    ELSE LET kw == CHOOSE k \in kws : TRUE
         IN  BoostOf[kw] + SumOfBoosts(kws \ {kw})

\* C19: the probability assess_risk returns is min(0.95, prior of the domain
\* + the sum of the boosts of the distinct risk keywords present in the
\* negated statement), with the default prior for a domain that is unknown
\* or missing; a keyword counts once however often it occurs, and the
\* probability is never above 0.95.
C19_ProbabilityIsCappedSum ==
    (arg # <<>> /\ arg[1] = "assess_risk") =>
        /\ out[1] = Min(95, PriorOf(arg[2].domain)
                            + SumOfBoosts(KeywordsPresent(arg[2].inverted_statement)))
        /\ out[1] <= 95

\* C19 witness: for an unknown domain and a statement with crash twice and
\* race once, the probability is 0.10 + 0.30 + 0.25.
C19_Witness ==
    /\ arg = <<"assess_risk",
               [domain |-> "quantum",
                inverted_statement |-> Phrase(<<"crash", "crash", "race-prone">>)]>>
    /\ out[1] = 65

\* The order of the levels.
RankOf(level) ==
    CASE level = "LOW" -> 1 [] level = "MEDIUM" -> 2
      [] level = "HIGH" -> 3 [] level = "CRITICAL" -> 4

\* C20: categorize_risk gives every score of [0, 1] exactly one level:
\* CRITICAL from 0.8, HIGH in [0.6, 0.8), MEDIUM in [0.4, 0.6), LOW below
\* 0.4, the scores below 0.2 included; and a higher score never gets a
\* lower level.
C20_CategorizeIsTotalMonotone ==
    (arg # <<>> /\ arg[1] = "categorize_risk") =>
        LET score == arg[2]
        IN  /\ out \in {"CRITICAL", "HIGH", "MEDIUM", "LOW"}
            /\ out = "CRITICAL" <=> score >= 8000
            /\ out = "HIGH" <=> (score >= 6000 /\ score < 8000)
            /\ out = "MEDIUM" <=> (score >= 4000 /\ score < 6000)
            /\ out = "LOW" <=> score < 4000
            /\ score > 0 => RankOf(categorize_risk(score - 1)) <= RankOf(out)

\* C20 witness: a score below every threshold, 0.1, got LOW.
C20_Witness ==
    /\ arg = <<"categorize_risk", 1000>>
    /\ out = "LOW"

\* The orders in which a list of n elements can be folded.
Orders(n) ==
    {f \in [1..n -> 1..n] : \A i, j \in 1..n : i # j => f[i] # f[j]}

\* C21: the OR-gate fold is order-independent: every permutation of the
\* list of probabilities gives the same value (as an exact number, which the
\* code's floats follow up to rounding).
C21_OrGateOrderIndependent ==
    (arg # <<>> /\ arg[1] = "or_gate") =>
        \A f \in Orders(Len(arg[2])) :
            or_gate([i \in DOMAIN arg[2] |-> arg[2][f[i]]]) = out

\* 0.2, 0.3, 0.5 folded to 0.72 = 18/25.
C21_Witness ==
    /\ arg = <<"or_gate", << <<20, 100>>, <<30, 100>>, <<50, 100>> >> >>
    /\ out = <<18, 25>>

\* C22: for inputs of [0, 1] the OR-gate stays in [0, 1], is 0 for the empty
\* list and p for the list of p alone; the AND-gate is 1 for the empty list
\* and 0 for a list that contains 0.
C22_GateBounds ==
    /\ (arg # <<>> /\ arg[1] = "or_gate") =>
          /\ 0 <= out[1] /\ out[1] <= out[2]
          /\ arg[2] = <<>> => out[1] = 0
          /\ Len(arg[2]) = 1 => out[1] * arg[2][1][2] = arg[2][1][1] * out[2]
    /\ (arg # <<>> /\ arg[1] = "and_gate") =>
          /\ arg[2] = <<>> => out[1] = out[2]
          /\ (\E k \in DOMAIN arg[2] : arg[2][k][1] = 0) => out[1] = 0

\* The AND-gate of 0.5, 0, 0.3.
C22_Witness ==
    /\ arg = <<"and_gate", << <<50, 100>>, <<0, 100>>, <<30, 100>> >> >>
    /\ out[1] = 0

\* The probabilities of the records that satisfy Test, in the order given.
ProbabilitiesWhere(vectors, Test(_)) ==
    LET chosen == SelectSeq(vectors, Test)
    IN  [k \in DOMAIN chosen |-> <<chosen[k].vector.probability, 100>>]

\* C23: fault_tree_analysis reports one value per owning component, the
\* OR-gate of that component's record probabilities, and as top-event
\* probability the OR-gate of the per-component values, which is the OR-gate
\* over all the individual record probabilities (values as the analysis
\* reports them, rounded to four decimals).
C23_FaultTreeGroups ==
    (arg # <<>> /\ arg[1] = "fault_tree_analysis" /\ arg[2] # <<>>) =>
        LET vectors == arg[2]
            reported == out.component_probabilities
            Owned(comp) ==
                ProbabilitiesWhere(vectors, LAMBDA v : v.component = comp)
        IN  /\ {reported[k][1] : k \in DOMAIN reported}
                  = {vectors[i].component : i \in DOMAIN vectors}
            /\ \A k, l \in DOMAIN reported :
                  reported[k][1] = reported[l][1] => k = l
            /\ \A k \in DOMAIN reported :
                  reported[k][2] = Round4(or_gate(Owned(reported[k][1])))
            /\ out.top_event_probability
                  = Round4(or_gate(ProbabilitiesWhere(vectors, LAMBDA v : TRUE)))

\* Records of X and Y interleaved, two of them of X: 0.5 and 0.2 for X give
\* 0.6, with 0.5 for Y the top event is 0.8.
C23_Witness ==
    /\ arg # <<>> /\ arg[1] = "fault_tree_analysis"
    /\ Len(arg[2]) = 3
    /\ arg[2][1].component = "X" /\ arg[2][1].vector.probability = 50
    /\ arg[2][2].component = "Y"
    /\ arg[2][3].component = "X" /\ arg[2][3].vector.probability = 20
    /\ out.component_probabilities = << <<"X", 6000>>, <<"Y", 5000>> >>
    /\ out.top_event_probability = 8000

\* The position in the list given of the k-th critical path.
CriticalIndex(k) ==
    CHOOSE i \in DOMAIN arg[2] :
        arg[2][i].vector.description = out.critical_paths[k].description

\* Record i goes before record j in the ranking: a higher score, or the same
\* score and an earlier place in the list given.
RanksBefore(i, j) ==
    LET vectors == arg[2]
    IN  \/ vectors[i].vector.risk_score > vectors[j].vector.risk_score
        \/ /\ vectors[i].vector.risk_score = vectors[j].vector.risk_score
           /\ i < j

\* C24: the critical paths are the min(5, n) records of highest risk score
\* among the n given, in descending order of score, records of equal score
\* in the order they were given.
C24_CriticalPaths ==
    (arg # <<>> /\ arg[1] = "fault_tree_analysis") =>
        LET vectors == arg[2]
            critical == out.critical_paths
            chosen == {CriticalIndex(k) : k \in DOMAIN critical}
        IN  /\ Len(critical) = Min(5, Len(vectors))
            /\ \A k \in DOMAIN critical :
                  /\ \E i \in DOMAIN vectors :
                        vectors[i].vector.description = critical[k].description
                  /\ critical[k].risk_score
                        = vectors[CriticalIndex(k)].vector.risk_score
            /\ \A k, l \in DOMAIN critical :
                  k < l => RanksBefore(CriticalIndex(k), CriticalIndex(l))
            /\ \A i \in DOMAIN vectors \ chosen :
                  \A j \in chosen : RanksBefore(j, i)

\* Six records, the last one of the highest score and the first, third and
\* fourth tied: the sixth comes first, the tied ones keep their order, and a
\* record is left out.
C24_Witness ==
    /\ arg # <<>> /\ arg[1] = "fault_tree_analysis"
    /\ Len(arg[2]) = 6
    /\ [i \in 1..6 |-> arg[2][i].vector.risk_score]
          = <<2500, 2000, 2500, 2500, 2000, 5000>>
    /\ [k \in 1..5 |-> CriticalIndex(k)] = <<6, 1, 3, 4, 2>>

\* C25: for a statement none of whose words is in the negation-word or the
\* semantic-inversion table, whatever its blanks, invert_logic returns the
\* generic wrapper followed by the statement; for every statement the output
\* is not empty and differs from the statement.
C25_WrapperWhenNoWordMatches ==
    (arg # <<>> /\ arg[1] = "invert_logic") =>
        LET statement == arg[2]
            words == Split(statement)
            Matches(word) ==
                \/ LowerStrip(word) \in DOMAIN NEGATIONS
                \/ LowerStrip(word) \in DOMAIN INVERSIONS
        IN  /\ (\A i \in DOMAIN words : ~Matches(words[i])) =>
                  out = <<"It", SP, "is", SP, "NOT", SP, "guaranteed", SP,
                          "that:", SP>> \o statement
            /\ out # <<>>
            /\ out # statement

\* The negated axioms rule k of the catalog is relevant to.
RelevantTo(k) ==
    {i \in DOMAIN axioms :
        /\ IsInverted(axioms[i])
        /\ ~Falsy(axioms[i].inverted_statement)
        /\ is_pattern_relevant(axioms[i], DEFAULT_PATTERNS[k])}

\* C27: relevance matching counts a pair of a negated axiom and a rule
\* relevant to it at most once: however many times the matcher polls, the
\* occurrence counter of a rule is at most the number of negated axioms the
\* rule is relevant to.
C27_PairCountedOnce ==
    \A k \in DOMAIN DEFAULT_PATTERNS :
        patterns[k].occurrences <= Cardinality(RelevantTo(k))

\* C29: every risk record the assessor creates references an axiom that is
\* in the store and INVERTED (negated) when the record is created; in the
\* log, the negation of the axiom comes before the record.
C29_RecordAfterNegation ==
    /\ [][\A v \in DOMAIN failure_vectors' \ DOMAIN failure_vectors :
             LET id == failure_vectors'[v].axiom_id
             IN  /\ id \in DOMAIN axioms
                 /\ axioms[id].id = id
                 /\ IsInverted(axioms[id])
         ]_vars
    /\ [](\A v \in DOMAIN failure_vectors :
             \E i, j \in DOMAIN events :
                /\ i < j
                /\ events[i].event_type = "AXIOM_INVERTED"
                /\ events[i].payload.axiom_id = failure_vectors[v].axiom_id
                /\ events[j].event_type = "VECTOR_RECORDED"
                /\ events[j].payload.vector_id = failure_vectors[v].id)

\* C29 witness: the assessor has recorded the risk of a negated axiom while
\* another axiom is still pending.
C29_Witness ==
    /\ failure_vectors # <<>>
    /\ IsInverted(axioms[failure_vectors[1].axiom_id])
    /\ \E i \in DOMAIN axioms : IsPending(axioms[i])
    /\ \E a \in Assessors : tasks_processed[a] >= 1

\* The number of rows of a query's result that have the id.
TimesIn(rows, id) == Cardinality({k \in DOMAIN rows : rows[k].id = id})

\* C30: axiom state only moves forward: the ids of the axioms are pairwise
\* distinct, no step removes an axiom or changes its id, no step takes an
\* axiom from INVERTED back to PENDING, and every axiom is in exactly one of
\* get_pending_axioms() and get_inverted_axioms().
C30_AxiomStateMovesForward ==
    /\ [](\A i, j \in DOMAIN axioms : i # j => axioms[i].id # axioms[j].id)
    /\ [](\A i \in DOMAIN axioms :
             TimesIn(get_pending_axioms, axioms[i].id)
                 + TimesIn(get_inverted_axioms, axioms[i].id) = 1)
    /\ [][\A i \in DOMAIN axioms :
             /\ i \in DOMAIN axioms'
             /\ axioms'[i].id = axioms[i].id
             /\ IsInverted(axioms[i]) => IsInverted(axioms'[i])
         ]_vars

\* C30 witness: two axioms, the first negated twice (once by each inverter)
\* and still INVERTED, the second PENDING.
C30_Witness ==
    /\ Len(axioms) = 2
    /\ IsInverted(axioms[1])
    /\ IsPending(axioms[2])
    /\ Cardinality(Negations(1)) = 2

\* C28: a matcher increments only the pattern rows it registered itself:
\* the one recognizer that runs registered rows 1..8, so the rows a
\* recognizer constructed later registered stay at 0.
C28_OnlyOwnRowsIncremented ==
    \A i \in DOMAIN patterns :
        i > Len(DEFAULT_PATTERNS) => patterns[i].occurrences = 0

\* The rule's expression has a match in the text.
HasMatch(regex, text) == \E i \in DOMAIN text : text[i] \in regex

\* C26: direct scanning returns a finding for a rule only if the rule has at
\* least one match in the artifact and is not tagged GOOD (benign): a rule
\* without a match and a GOOD rule with matches are not among the findings;
\* every finding carries at most 3 samples.  (The finding of analyze's
\* configuration check is of no rule of the library.)
C26_FindingsOnlyForMatchedRules ==
    /\ (arg # <<>> /\ arg[1] = "analyze") =>
          \A i \in DOMAIN out :
             /\ Len(out[i].samples) <= 3
             /\ \A k \in DOMAIN PATTERNS :
                   out[i].type = PATTERNS[k].tag =>
                      /\ HasMatch(PATTERNS[k].regex, arg[2].code)
                      /\ PATTERNS[k].severity # "GOOD"
    /\ (arg # <<>> /\ arg[1] = "scan_text") =>
          \A i \in DOMAIN out :
             /\ Len(out[i].samples) <= 3
             /\ \A k \in DOMAIN DEFAULT_PATTERNS :
                   out[i].pattern = DEFAULT_PATTERNS[k].name =>
                      /\ HasMatch(DEFAULT_PATTERNS[k].regex, arg[2])
                      /\ DEFAULT_PATTERNS[k].risk_level # "GOOD"

\* C26 witness: an artifact with four force tries and a weak capture, with
\* the right linker flags: the one finding is FORCE_TRY, with 4 occurrences
\* and 3 samples.
C26_Witness ==
    /\ arg # <<>> /\ arg[1] = "analyze"
    /\ Len(findall({"try!"}, arg[2].code)) = 4
    /\ HasMatch({"[weak self]"}, arg[2].code)
    /\ Len(out) = 1
    /\ out[1].type = "FORCE_TRY"
    /\ out[1].occurrences = 4
    /\ out[1].samples = <<"try!", "try!", "try!">>
    /\ stats.violations_found = 1

=============================================================================
